---- MODULE Spec2Model ----
(***************************************************************************)
(* Periodic-task runtime of the discrete control simulator: the threads    *)
(* that src/test/testHilo.cpp assembles (start/stop monitor, signal        *)
(* switch, one-input tasks, PID task, summing junction, IPC transmitter    *)
(* and receiver), the three POSIX mutexes they lock, the stop flags, the   *)
(* absolute timer (Temporizador) and the runtime logger (RuntimeLogger).   *)
(*                                                                         *)
(* Every thread is a small program counter machine.  A step that locks a   *)
(* mutex is enabled only when the mutex is free; the step after it         *)
(* performs the accesses of the critical section and unlocks.  Steps that  *)
(* touch no shared state (block computation, log row, timer wait) are      *)
(* folded into the step before them.                                       *)
(***************************************************************************)
EXTENDS Integers, Sequences, FiniteSets, TLC

VARIABLES
    tasks,         \* the worker threads of this run (fixed by Init)
    pc,            \* thread -> position in its code
    holder,        \* mutex -> thread holding it, or "none"
    running,       \* *running: the stop flag shared through bool* (testHilo.cpp:88)
    vars_running,  \* vars->running (VariablesCompartidas::running)
    g_signal_run,  \* process-global flag (HiloIntArranque.cpp:7)
    run,           \* the run/stop source read by InterruptorArranque::getRun
    run_state,     \* monitor's local run_state (HiloIntArranque.cpp:99)
    running_now,   \* main's local running_now (testHilo.cpp:257)
    signal_type,   \* params->signal_type
    rx_msg,        \* signal_type of the message the receiver is storing
    gains,         \* params->kp, ki, kd: for each, the update that wrote it
    received,      \* number of parameter messages the receiver has taken
    inicializado_, \* Receptor::inicializado_
    tx_inicializado_, \* Transmisor::inicializado_
    pid_g,         \* HiloPID::run's locals kp, ki, kd (HiloPID.cpp:179-181)
    applied,       \* the controller's Kp_, Ki_, Kd_ at its last step
    cycle_upd,     \* history: the last complete update when the PID cycle began
    sw_live,       \* a SignalSwitch has been constructed
    selector_,     \* SignalSwitch::selector_
    sw_signals,    \* samples drawn from stepSignal_, pwmSignal_, sineSignal_
    sw_exc,        \* exception thrown by the last call on the switch, or "none"
    mi,            \* main: index into the constructor / join / destructor list
    joined,        \* threads whose pthread_t has been joined
    proc,          \* "run", "exit" (main returned), "abort" (terminate / crash)
    retval,        \* value of main's return statement, -1 before it
    stopIssued,    \* history: some thread has written false to *running
    sigSeen,       \* history: a signal reached the simulator while it was running
    next_sec,      \* Temporizador::next_.tv_sec
    next_nsec,     \* Temporizador::next_.tv_nsec
    period_ns,     \* Temporizador::period_ns_
    now,           \* CLOCK_MONOTONIC
    t0,            \* the instant the timer's constructor read the clock
    nwaits,        \* calls of esperar() since construction
    iterations,    \* Hilo::iterations_
    iter_t0,       \* t0 of the current iteration (Hilo.cpp:97)
    t_total,       \* t3 - t0 of the last finished iteration (Hilo.cpp:148)
    status,        \* status of the last row handed to the logger
    wret,          \* value returned by the last clock_nanosleep
    tphase,        \* position of the timed task in Hilo::run
    task_class,    \* the class whose run loop is timed
    t_ejecucion,   \* t2 - t0 of the current iteration: the time its work took
    log_buffer,    \* RuntimeLogger::log_buffer_
    max_lines,     \* RuntimeLogger::max_lines_
    flush_interval,     \* RuntimeLogger::flush_interval_
    lines_since_flush,  \* RuntimeLogger::lines_since_flush_
    file,          \* lines of the log file on disk
    lineNo,        \* number of writeLine calls so far; line k is the k-th written
    opened,        \* whether the last writeToFile could open the file
    destroyed,     \* the logger's destructor has run
    blk,           \* the fields of one discrete block
    blk_par,       \* the arguments the block was constructed with
    blk_in,        \* inputs of the steps since construction or the last reset
    blk_out,       \* values those steps returned
    blk_exc,       \* whether the last step left by an exception
    blk_reset,     \* "none", or the reset operation that has been called
    timing_buffer_,   \* HiloPID::timing_buffer_: iteration of each entry, 0 if never written
    pid_iterations_,  \* HiloPID::iterations_
    pid_logged,       \* iterations handed to logTiming, in order
    pid_logfile,      \* rows of the PID task's log file, by iteration
    pid_phase         \* "loop", "exited" (run has left its loop), "flushed"

gainVars == <<gains, received, pid_g, applied, cycle_upd>>
switchVars == <<sw_live, selector_, sw_signals, sw_exc>>
blockVars == <<blk, blk_par, blk_in, blk_out, blk_exc, blk_reset>>
endpointVars == <<inicializado_, tx_inicializado_>>
pidLogVars == <<timing_buffer_, pid_iterations_, pid_logged, pid_logfile, pid_phase>>
pipeVars == <<tasks, pc, holder, running, vars_running, g_signal_run, run, run_state,
              running_now, signal_type, rx_msg, mi, joined, proc, retval,
              stopIssued, sigSeen, gainVars, switchVars, endpointVars, blockVars,
              pidLogVars>>
timerVars == <<next_sec, next_nsec, period_ns, now, t0, nwaits, iterations,
               iter_t0, t_total, status, wret, tphase, task_class, t_ejecucion>>
logVars == <<log_buffer, max_lines, flush_interval, lines_since_flush, file, lineNo,
             opened, destroyed>>
vars == <<pipeVars, timerVars, logVars>>

----------------------------------------------------------------------------
(* Threads and mutexes of the assembled pipeline.                          *)

\* The one-input tasks (class Hilo) that main constructs.
HiloTasks == {"planta", "ad", "da"}

Workers == {"mon", "ref", "pid", "sum", "tx", "rx"} \cup HiloTasks
Threads == {"main"} \cup Workers

\* mtx: the shared mutex (testHilo.cpp:84); vars: vars->mtx; params: params->mtx
Mutexes == {"mtx", "vars", "params"}

\* Tasks whose stop check reads *running under the shared mutex.
FlagTasks == {"ref", "sum", "tx", "rx"} \cup HiloTasks

(* The threads are explored MaxTasks worker tasks at a time, next to main  *)
(* and the monitor: a run of the program in which the other tasks have not *)
(* been scheduled.  No thread but the PID task locks a second mutex while  *)
(* it holds one, so every interaction through a mutex or a flag is between *)
(* two tasks, main and the monitor.                                        *)
MaxTasks == 2
Configs == {T \cup {"mon"} : T \in {S \in SUBSET (Workers \ {"mon"}) : Cardinality(S) = MaxTasks}}

Held(t) == {m \in Mutexes : holder[m] = t}

Lock(t, m) == /\ holder[m] = "none"
              /\ holder' = [holder EXCEPT ![m] = t]

Unlock(t, m) == holder' = [holder EXCEPT ![m] = "none"]

Goto(t, l) == pc' = [pc EXCEPT ![t] = l]

Alive == proc = "run"

\* What a step of the pipeline leaves alone besides the pipeline's own state.
frame1 == <<tasks, sigSeen, timerVars, logVars, switchVars, blockVars, pidLogVars>>
frame0 == <<frame1, endpointVars>>
frame == <<frame0, gainVars>>

\* Everything a plain lock, unlock or local step leaves alone.
rest == <<frame, running, vars_running, g_signal_run, run, run_state, running_now,
          signal_type, rx_msg, mi, joined, proc, retval, stopIssued>>


----------------------------------------------------------------------------
(* Accesses to the fields of the two shared cells.  Access(t) is the set   *)
(* of accesses thread t performs in the step it takes from its current     *)
(* position: <<cell, field, "r" | "w">>.                                   *)

\* Input and output cell of each one-input task (testHilo.cpp:175,185,210).
HiloIn(t) == CASE t = "planta" -> "ua" [] t = "ad" -> "yk" [] OTHER -> "u"
HiloOut(t) == CASE t = "planta" -> "yk" [] t = "ad" -> "ykd" [] OTHER -> "ua"

ParamFields == {"kp", "ki", "kd", "setpoint", "signal_type"}
GainFields == {"kp", "ki", "kd"}

\* The last update all of whose gains are in the cell.
Complete ==
    CHOOSE v \in {gains[f] : f \in GainFields} : \A f \in GainFields : gains[f] >= v

Access(t) ==
    CASE t \in HiloTasks /\ pc[t] = "rd" -> {<<"vars", HiloIn(t), "r">>}
      [] t \in HiloTasks /\ pc[t] = "wr" -> {<<"vars", HiloOut(t), "w">>}
      [] t = "sum" /\ pc[t] = "rh" -> {<<"vars", "ref", "r">>, <<"vars", "ykd", "r">>}
      [] t = "sum" /\ pc[t] = "wh" -> {<<"vars", "e", "w">>}
      [] t = "ref" /\ pc[t] = "ph" ->
            {<<"params", "signal_type", "r">>, <<"params", "setpoint", "r">>}
      [] t = "ref" /\ pc[t] = "wh" -> {<<"vars", "ref", "w">>}
      [] t = "pid" /\ pc[t] = "chk" -> {<<"vars", "running", "r">>}
      [] t = "pid" /\ pc[t] = "ph" -> {<<"params", "kp", "r">>}
      [] t = "pid" /\ pc[t] = "hi" -> {<<"params", "ki", "r">>}
      [] t = "pid" /\ pc[t] = "hd" -> {<<"params", "kd", "r">>}
      [] t = "pid" /\ pc[t] = "st" -> {<<"vars", "e", "r">>, <<"vars", "u", "w">>}
      [] t = "tx" /\ pc[t] = "vh" ->
            {<<"vars", "ref", "r">>, <<"vars", "u", "r">>, <<"vars", "yk", "r">>}
      [] t = "rx" /\ pc[t] = "ph" -> {<<"params", "kp", "w">>}
      [] t = "rx" /\ pc[t] = "hi" -> {<<"params", "ki", "w">>}
      [] t = "rx" /\ pc[t] = "hd" ->
            {<<"params", f, "w">> : f \in ParamFields \ {"kp", "ki"}}
      [] t = "main" /\ pc[t] = "m_initP" -> {<<"params", "kp", "w">>}
      [] t = "main" /\ pc[t] = "m_initKi" -> {<<"params", "ki", "w">>}
      [] t = "main" /\ pc[t] = "m_initKd" ->
            {<<"params", "kd", "w">>, <<"params", "setpoint", "w">>}
      [] t = "main" /\ pc[t] = "m_rdV" ->
            {<<"vars", f, "r">> : f \in {"ref", "u", "yk", "e"}}
      [] t = "main" /\ pc[t] = "m_rdPar" -> {<<"params", f, "r">> : f \in ParamFields}
      [] t = "main" /\ pc[t] = "m_wrV" -> {<<"vars", "running", "w">>}
      [] OTHER -> {}

----------------------------------------------------------------------------
(* Stop check shared by the tasks that watch *running (Hilo, Hilo2in,      *)
(* HiloSwitch, HiloTransmisor, HiloReceptor).                              *)

\* First position of a task's work after a stop check that read true.
Work(t) == CASE t \in HiloTasks -> "rd"
             [] t = "sum" -> "rl"
             [] t = "ref" -> "pl"
             [] t = "tx" -> "vl"
             [] OTHER -> "recv"

FlagLock(t) ==
    /\ Alive /\ pc[t] = "top"
    /\ Lock(t, "mtx")
    /\ Goto(t, "chk")
    /\ UNCHANGED rest

\* A stop check that goes on with the cycle whatever it read.
FlagCheckGoesOn(t) ==
    /\ Alive /\ pc[t] = "chk"
    /\ Unlock(t, "mtx")
    /\ Goto(t, Work(t))
    /\ UNCHANGED rest

FlagCheck(t) ==
    /\ Alive /\ pc[t] = "chk"
    /\ Unlock(t, "mtx")
    /\ Goto(t, IF running THEN Work(t) ELSE "done")
    /\ UNCHANGED rest

(* Hilo::run, shared_ptr variant: input and output are accessed without    *)
(* any mutex.                                                              *)
HiloRead(t) ==
    /\ Alive /\ pc[t] = "rd"
    /\ Goto(t, "wr")
    /\ UNCHANGED <<frame, holder, rest>>

HiloWrite(t) ==
    /\ Alive /\ pc[t] = "wr"
    /\ Goto(t, "top")
    /\ UNCHANGED <<frame, holder, rest>>

(* Hilo2in::run *)
SumLockIn ==
    /\ Alive /\ pc["sum"] = "rl"
    /\ Lock("sum", "mtx")
    /\ Goto("sum", "rh")
    /\ UNCHANGED rest

SumReadIn ==
    /\ Alive /\ pc["sum"] = "rh"
    /\ Unlock("sum", "mtx")
    /\ Goto("sum", "wl")
    /\ UNCHANGED rest

SumLockOut ==
    /\ Alive /\ pc["sum"] = "wl"
    /\ Lock("sum", "mtx")
    /\ Goto("sum", "wh")
    /\ UNCHANGED rest

SumWriteOut ==
    /\ Alive /\ pc["sum"] = "wh"
    /\ Unlock("sum", "mtx")
    /\ Goto("sum", "top")
    /\ UNCHANGED rest


(* HiloSwitch::run.  setSelector (SignalSwitch.cpp:36-41) throws           *)
(* std::invalid_argument for a selector outside [0,2]; nothing in run() or *)
(* threadFunc catches it, so the exception leaves the thread's start       *)
(* routine and std::terminate aborts the process.                          *)
SelectorValid(s) == ~(s < 0 \/ s > 2)

RefLockParams ==
    /\ Alive /\ pc["ref"] = "pl"
    /\ Lock("ref", "params")
    /\ Goto("ref", "ph")
    /\ UNCHANGED rest

RefReadParams ==
    /\ Alive /\ pc["ref"] = "ph"
    /\ Unlock("ref", "params")
    /\ IF SelectorValid(signal_type)
         THEN Goto("ref", "wl") /\ proc' = proc
         ELSE Goto("ref", "threw") /\ proc' = "abort"
    /\ UNCHANGED <<frame, running, vars_running, g_signal_run, run, run_state, running_now,
                   signal_type, rx_msg, mi, joined, retval, stopIssued>>

RefLockOut ==
    /\ Alive /\ pc["ref"] = "wl"
    /\ Lock("ref", "mtx")
    /\ Goto("ref", "wh")
    /\ UNCHANGED rest

RefWriteOut ==
    /\ Alive /\ pc["ref"] = "wh"
    /\ Unlock("ref", "mtx")
    /\ Goto("ref", "top")
    /\ UNCHANGED rest

(* HiloPID::run.  The stop check uses pthread_mutex_trylock on vars->mtx   *)
(* and reads vars->running; params->mtx is locked while vars->mtx is held. *)
(* On EBUSY the period is skipped; the ERROR_MUTEX row is logged only when *)
(* the trylock call itself took more than 80% of the period ("skipErr").   *)
(* vars->mtx is a default, initialised mutex, so trylock returns 0 or      *)
(* EBUSY and the branch of lines 161-165 is not taken.                     *)
PidTryLock ==
    /\ Alive /\ pc["pid"] = "top"
    /\ \/ /\ Lock("pid", "vars") /\ Goto("pid", "chk")
          /\ cycle_upd' = Complete
       \/ /\ holder["vars"] # "none"
          /\ \E late \in BOOLEAN : Goto("pid", IF late THEN "skipErr" ELSE "skip")
          /\ UNCHANGED <<holder, cycle_upd>>
    /\ UNCHANGED <<frame0, gains, received, pid_g, applied, running, vars_running,
                   g_signal_run, run, run_state, running_now, signal_type, rx_msg, mi,
                   joined, proc, retval, stopIssued>>

\* A skipped cycle that still hands the gains of the cell to the controller.
PidSkipSetsGains ==
    /\ Alive /\ pc["pid"] \in {"skip", "skipErr"}
    /\ applied' = gains
    /\ Goto("pid", "top")
    /\ UNCHANGED <<holder, frame0, gains, received, pid_g, cycle_upd, running,
                   vars_running, g_signal_run, run, run_state, running_now, signal_type,
                   rx_msg, mi, joined, proc, retval, stopIssued>>

\* Lines 158-159: timer.esperar(); continue.
PidSkip ==
    /\ Alive /\ pc["pid"] \in {"skip", "skipErr"}
    /\ Goto("pid", "top")
    /\ UNCHANGED <<holder, rest>>

\* A stop check that breaks out of the loop with vars->mtx still locked.
PidCheckKeepsLock ==
    /\ Alive /\ pc["pid"] = "chk"
    /\ Goto("pid", IF vars_running THEN "pl" ELSE "done")
    /\ UNCHANGED <<holder, rest>>

PidCheck ==
    /\ Alive /\ pc["pid"] = "chk"
    /\ IF vars_running
         THEN Goto("pid", "pl") /\ UNCHANGED holder
         ELSE Goto("pid", "done") /\ Unlock("pid", "vars")
    /\ UNCHANGED rest

\* A PID task that reads the parameter cell without taking its mutex.
PidLockParamsNoLock ==
    /\ Alive /\ pc["pid"] = "pl"
    /\ UNCHANGED holder
    /\ Goto("pid", "ph")
    /\ UNCHANGED rest

PidLockParams ==
    /\ Alive /\ pc["pid"] = "pl"
    /\ Lock("pid", "params")
    /\ Goto("pid", "ph")
    /\ UNCHANGED rest

\* A read that takes the gain the controller already has instead of the cell's.
PidReadCached(at, f, to) ==
    /\ Alive /\ pc["pid"] = at
    /\ pid_g' = [pid_g EXCEPT ![f] = applied[f]]
    /\ Goto("pid", to)
    /\ UNCHANGED <<frame0, gains, received, applied, cycle_upd, running, vars_running,
                   g_signal_run, run, run_state, running_now, signal_type, rx_msg, mi,
                   joined, proc, retval, stopIssued>>

\* One of the reads of lines 179-181 into the local of the same name.
PidRead(at, f, to) ==
    /\ Alive /\ pc["pid"] = at
    /\ pid_g' = [pid_g EXCEPT ![f] = gains[f]]
    /\ Goto("pid", to)
    /\ UNCHANGED <<frame0, gains, received, applied, cycle_upd, running, vars_running,
                   g_signal_run, run, run_state, running_now, signal_type, rx_msg, mi,
                   joined, proc, retval, stopIssued>>

PidReadKp == PidRead("ph", "kp", "hi") /\ UNCHANGED holder

PidReadKi == PidRead("hi", "ki", "hd") /\ UNCHANGED holder

PidReadParams ==
    /\ PidRead("hd", "kd", "sg")
    /\ Unlock("pid", "params")

\* PIDController::setGains, declared in PIDController.h:117.
setGains(kp, ki, kd) == applied' = [kp |-> kp, ki |-> ki, kd |-> kd]

\* Lines 184-187: the gains read are given to the controller.
PidSetGains ==
    /\ Alive /\ pc["pid"] = "sg"
    /\ setGains(pid_g["kp"], pid_g["ki"], pid_g["kd"])
    /\ Goto("pid", "st")
    /\ UNCHANGED <<holder, frame0, gains, received, pid_g, cycle_upd, running,
                   vars_running, g_signal_run, run, run_state, running_now, signal_type,
                   rx_msg, mi, joined, proc, retval, stopIssued>>

\* Lines 190-193: the controller steps with the error read from the cell,
\* the output is written to u and the pipeline mutex is released.
PidStep ==
    /\ Alive /\ pc["pid"] = "st"
    /\ applied' = applied
    /\ Unlock("pid", "vars")
    /\ Goto("pid", "top")
    /\ UNCHANGED <<frame0, gains, received, pid_g, cycle_upd, running, vars_running,
                   g_signal_run, run, run_state, running_now, signal_type, rx_msg, mi,
                   joined, proc, retval, stopIssued>>

(* The endpoints.  inicializar() on an initialised endpoint returns true   *)
(* and changes nothing; otherwise the endpoint is initialised exactly when *)
(* the queue could be opened.  cerrar() closes an initialised endpoint and *)
(* does nothing on any other.                                              *)
inicializar(inicializado, opened_ok) == IF inicializado THEN TRUE ELSE opened_ok
cerrar(inicializado) == IF inicializado THEN FALSE ELSE inicializado

\* An enviar that goes on to the cell without looking at inicializado_.
enviarUnguarded ==
    /\ Alive /\ pc["tx"] = "vl"
    /\ Lock("tx", "vars")
    /\ Goto("tx", "vh")
    /\ UNCHANGED rest

(* HiloTransmisor::run with Transmisor::enviar: false at once when the     *)
(* transmitter is not initialised (the task drops the value and sleeps to  *)
(* its next period), else the cell is read under vars->mtx and sent.       *)
TxLockVars ==
    /\ Alive /\ pc["tx"] = "vl"
    /\ IF tx_inicializado_
         THEN Lock("tx", "vars") /\ Goto("tx", "vh")
         ELSE Goto("tx", "top") /\ UNCHANGED holder
    /\ UNCHANGED rest

TxSend ==
    /\ Alive /\ pc["tx"] = "vh"
    /\ Unlock("tx", "vars")
    /\ Goto("tx", "top")
    /\ UNCHANGED rest

(* HiloReceptor::run with Receptor::recibir.  signal_type travels as a     *)
(* uint8_t (messages.h:43) and is stored unchecked.                        *)
MaxSignalType == 3
SignalTypes == 0..MaxSignalType

\* Parameter messages taken in one run.
MaxUpdates == 1

\* The update a message carries: 0 is the constructor of the cell, 1 the
\* values main writes, 1 + k the k-th message.
\* A recibir that goes on to the queue without looking at inicializado_.
recibirUnguarded ==
    /\ Alive /\ pc["rx"] = "recv"
    /\ \/ Goto("rx", "retF") /\ UNCHANGED <<rx_msg, received>>
       \/ /\ received < MaxUpdates
          /\ received' = received + 1
          /\ \E s \in SignalTypes : Goto("rx", "pl") /\ rx_msg' = s
    /\ UNCHANGED <<frame0, gains, pid_g, applied, cycle_upd, holder, running, vars_running,
                   g_signal_run, run, run_state, running_now, signal_type, mi, joined,
                   proc, retval, stopIssued>>

\* Receptor::recibir up to the lock: false when the receiver is not
\* initialised or receiveParams finds no message ("retF"), else the message
\* is taken and stored.
RxPoll ==
    /\ Alive /\ pc["rx"] = "recv"
    /\ \/ Goto("rx", "retF") /\ UNCHANGED <<rx_msg, received>>
       \/ /\ inicializado_
          /\ received < MaxUpdates
          /\ received' = received + 1
          /\ \E s \in SignalTypes : Goto("rx", "pl") /\ rx_msg' = s
    /\ UNCHANGED <<frame0, gains, pid_g, applied, cycle_upd, holder, running, vars_running,
                   g_signal_run, run, run_state, running_now, signal_type, mi, joined,
                   proc, retval, stopIssued>>

RxLockParams ==
    /\ Alive /\ pc["rx"] = "pl"
    /\ Lock("rx", "params")
    /\ Goto("rx", "ph")
    /\ UNCHANGED rest

\* One of the writes of Receptor.cpp:67-69.
RxWrite(at, f, to) ==
    /\ Alive /\ pc["rx"] = at
    /\ gains' = [gains EXCEPT ![f] = received + 1]
    /\ Goto("rx", to)

RxStoreKp ==
    /\ RxWrite("ph", "kp", "hi")
    /\ UNCHANGED <<frame0, received, pid_g, applied, cycle_upd, holder, running,
                   vars_running, g_signal_run, run, run_state, running_now, signal_type,
                   rx_msg, mi, joined, proc, retval, stopIssued>>

RxStoreKi ==
    /\ RxWrite("hi", "ki", "hd")
    /\ UNCHANGED <<frame0, received, pid_g, applied, cycle_upd, holder, running,
                   vars_running, g_signal_run, run, run_state, running_now, signal_type,
                   rx_msg, mi, joined, proc, retval, stopIssued>>

RxStore ==
    /\ RxWrite("hd", "kd", "retT")
    /\ signal_type' = rx_msg
    /\ Unlock("rx", "params")
    /\ UNCHANGED <<frame0, received, pid_g, applied, cycle_upd, running, vars_running,
                   g_signal_run, run, run_state, running_now, rx_msg, mi, joined, proc,
                   retval, stopIssued>>

\* HiloReceptor::run, lines 110-133: the value recibir returned is dropped,
\* the task sleeps to its next period.
RxWait ==
    /\ Alive /\ pc["rx"] \in {"retF", "retT"}
    /\ Goto("rx", "top")
    /\ UNCHANGED <<holder, rest>>

(* HiloIntArranque::run *)
getRun == run

MonPoll ==
    /\ Alive /\ pc["mon"] = "top"
    /\ IF g_signal_run = 0
         THEN Goto("mon", "sl") /\ run_state' = run_state
         ELSE Goto("mon", "wl") /\ run_state' = getRun
    /\ UNCHANGED <<frame, holder, running, vars_running, g_signal_run, run, running_now,
                   signal_type, rx_msg, mi, joined, proc, retval, stopIssued>>

\* pthread_mutex_destroy(mtx.get()) of testHilo.cpp:330 has run: it is the
\* statement before the return 0 of MainClose, the only place retval becomes 0.
MtxDestroyed == retval = 0

\* pthread_mutex_lock(mtx) by the monitor, which main does not join before it
\* destroys the mutex.  Locking a destroyed mutex is undefined: the call may
\* lock, may fail (the result is not looked at) or may crash.
MonLockMtx(to) ==
    \/ Lock("mon", "mtx") /\ Goto("mon", to) /\ UNCHANGED proc
    \/ MtxDestroyed /\ Goto("mon", to) /\ UNCHANGED <<holder, proc>>
    \/ MtxDestroyed /\ proc' = "abort" /\ UNCHANGED <<holder, pc>>

MonSigLock ==
    /\ Alive /\ pc["mon"] = "sl"
    /\ MonLockMtx("sh")
    /\ UNCHANGED <<frame, running, vars_running, g_signal_run, run, run_state,
                   running_now, signal_type, rx_msg, mi, joined, retval, stopIssued>>

MonSigStop ==
    /\ Alive /\ pc["mon"] = "sh"
    /\ running' = FALSE
    /\ stopIssued' = TRUE
    /\ Unlock("mon", "mtx")
    /\ Goto("mon", "done")
    /\ UNCHANGED <<frame, vars_running, g_signal_run, run, run_state, running_now,
                   signal_type, rx_msg, mi, joined, proc, retval>>

MonLock ==
    /\ Alive /\ pc["mon"] = "wl"
    /\ MonLockMtx("wh")
    /\ UNCHANGED <<frame, running, vars_running, g_signal_run, run, run_state,
                   running_now, signal_type, rx_msg, mi, joined, retval, stopIssued>>

MonWrite ==
    /\ Alive /\ pc["mon"] = "wh"
    /\ running' = (run_state # 0)
    /\ stopIssued' = (stopIssued \/ run_state = 0)
    /\ Unlock("mon", "mtx")
    /\ Goto("mon", IF run_state = 0 THEN "done" ELSE "top")
    /\ UNCHANGED <<frame, vars_running, g_signal_run, run, run_state, running_now,
                   signal_type, rx_msg, mi, joined, proc, retval>>


----------------------------------------------------------------------------
(* main (src/test/testHilo.cpp).  The initial state is main at line 114,   *)
(* about to construct the monitor: vars->running is true, *running false,  *)
(* the run source set to 1.                                                *)

\* Order of construction, with the three steps of main between them.
CtorOrder == <<"mon", "ref", "planta", "ad", "#params", "pid", "da", "sum",
               "#tx", "tx", "#rx", "rx">>
CtorSeq == SelectSeq(CtorOrder, LAMBDA x : x \in tasks \cup {"#params", "#tx", "#rx"})

\* The explicit joins of lines 316-323.
JoinOrder == <<"ref", "planta", "ad", "pid", "da", "sum", "tx", "rx">>
JoinSeq == SelectSeq(JoinOrder, LAMBDA x : x \in tasks)

\* Destructors run in reverse order of construction, for the tasks constructed.
DtorOrder == <<"rx", "tx", "sum", "da", "pid", "ad", "planta", "ref", "mon">>
DtorSeq == SelectSeq(DtorOrder, LAMBDA x : x \in tasks /\ pc[x] # "off")

\* Where main goes after the step at index i of the construction sequence.
AfterCtor(i) == IF i = Len(CtorSeq) THEN "m_loop" ELSE "m_ctor"

MainSpawn ==
    /\ Alive /\ pc["main"] = "m_ctor"
    /\ CtorSeq[mi] \in Workers
    /\ pc' = [pc EXCEPT ![CtorSeq[mi]] = "top",
                        !["main"] = AfterCtor(mi)]
    /\ mi' = mi + 1
    /\ UNCHANGED <<frame, holder, running, vars_running, g_signal_run, run, run_state,
                   running_now, signal_type, rx_msg, joined, proc, retval,
                   stopIssued>>

\* Lines 192-197: the parameter cell is initialised under the shared mutex.
MainLockInit ==
    /\ Alive /\ pc["main"] = "m_ctor"
    /\ CtorSeq[mi] = "#params"
    /\ Lock("main", "mtx")
    /\ Goto("main", "m_initP")
    /\ UNCHANGED rest

MainInit(at, f, to) ==
    /\ Alive /\ pc["main"] = at
    /\ gains' = [gains EXCEPT ![f] = 1]
    /\ Goto("main", to)

MainInitKp ==
    /\ MainInit("m_initP", "kp", "m_initKi")
    /\ UNCHANGED <<frame0, received, pid_g, applied, cycle_upd, holder, running,
                   vars_running, g_signal_run, run, run_state, running_now, signal_type,
                   rx_msg, mi, joined, proc, retval, stopIssued>>

MainInitKi ==
    /\ MainInit("m_initKi", "ki", "m_initKd")
    /\ UNCHANGED <<frame0, received, pid_g, applied, cycle_upd, holder, running,
                   vars_running, g_signal_run, run, run_state, running_now, signal_type,
                   rx_msg, mi, joined, proc, retval, stopIssued>>

\* The last write, the unlock, and the controller built from the cell (199).
MainInitParams ==
    /\ MainInit("m_initKd", "kd", "m_ctor")
    /\ applied' = gains'
    /\ Unlock("main", "mtx")
    /\ mi' = mi + 1
    /\ UNCHANGED <<frame0, received, pid_g, cycle_upd, running, vars_running,
                   g_signal_run, run, run_state, running_now, signal_type, rx_msg, joined,
                   proc, retval, stopIssued>>

\* Lines 224-229 and 239-244: inicializar() may fail; then *running = false
\* is written without the mutex and main returns 1.
MainIpcInit ==
    /\ Alive /\ pc["main"] = "m_ctor"
    /\ CtorSeq[mi] \in {"#tx", "#rx"}
    /\ \/ /\ mi' = mi + 1
          /\ Goto("main", AfterCtor(mi))
          /\ IF CtorSeq[mi] = "#tx"
               THEN /\ tx_inicializado_' = inicializar(tx_inicializado_, TRUE)
                    /\ UNCHANGED inicializado_
               ELSE /\ inicializado_' = inicializar(inicializado_, TRUE)
                    /\ UNCHANGED tx_inicializado_
          /\ UNCHANGED <<running, retval, stopIssued>>
       \/ /\ running' = FALSE
          /\ stopIssued' = TRUE
          /\ retval' = 1
          /\ Goto("main", "m_dtor")
          /\ mi' = 1
          /\ UNCHANGED endpointVars
    /\ UNCHANGED <<frame1, gainVars, holder, vars_running, g_signal_run, run, run_state, running_now,
                   signal_type, rx_msg, joined, proc>>

\* The monitoring loop, lines 255-300.
MainLockRun ==
    /\ Alive /\ pc["main"] = "m_loop"
    /\ Lock("main", "mtx")
    /\ Goto("main", "m_rdRun")
    /\ UNCHANGED rest

MainReadRun ==
    /\ Alive /\ pc["main"] = "m_rdRun"
    /\ running_now' = running
    /\ Unlock("main", "mtx")
    /\ Goto("main", "m_lockV")
    /\ UNCHANGED <<frame, running, vars_running, g_signal_run, run, run_state, signal_type,
                   rx_msg, mi, joined, proc, retval, stopIssued>>

MainLockVars ==
    /\ Alive /\ pc["main"] = "m_lockV"
    /\ Lock("main", "vars")
    /\ Goto("main", "m_rdV")
    /\ UNCHANGED rest

MainReadVars ==
    /\ Alive /\ pc["main"] = "m_rdV"
    /\ Unlock("main", "vars")
    /\ Goto("main", "m_lockPar")
    /\ UNCHANGED rest

MainLockPar ==
    /\ Alive /\ pc["main"] = "m_lockPar"
    /\ Lock("main", "params")
    /\ Goto("main", "m_rdPar")
    /\ UNCHANGED rest

\* A loop body that goes on without releasing params->mtx.
MainReadParKeep ==
    /\ Alive /\ pc["main"] = "m_rdPar"
    /\ Goto("main", IF running_now THEN "m_loop" ELSE "m_stop")
    /\ UNCHANGED <<holder, rest>>

MainReadPar ==
    /\ Alive /\ pc["main"] = "m_rdPar"
    /\ Unlock("main", "params")
    /\ Goto("main", IF running_now THEN "m_loop" ELSE "m_stop")
    /\ UNCHANGED rest

\* Shutdown, lines 302-309.
MainLockStop ==
    /\ Alive /\ pc["main"] = "m_stop"
    /\ Lock("main", "mtx")
    /\ Goto("main", "m_wrRun")
    /\ UNCHANGED rest

MainWriteStop ==
    /\ Alive /\ pc["main"] = "m_wrRun"
    /\ running' = FALSE
    /\ stopIssued' = TRUE
    /\ Unlock("main", "mtx")
    /\ Goto("main", "m_lockV2")
    /\ UNCHANGED <<frame, vars_running, g_signal_run, run, run_state, running_now,
                   signal_type, rx_msg, mi, joined, proc, retval>>

MainLockVars2 ==
    /\ Alive /\ pc["main"] = "m_lockV2"
    /\ Lock("main", "vars")
    /\ Goto("main", "m_wrV")
    /\ UNCHANGED rest

MainWriteVars ==
    /\ Alive /\ pc["main"] = "m_wrV"
    /\ vars_running' = FALSE
    /\ Unlock("main", "vars")
    /\ Goto("main", "m_join")
    /\ mi' = 1
    /\ UNCHANGED <<frame, running, g_signal_run, run, run_state, running_now, signal_type,
                   rx_msg, joined, proc, retval, stopIssued>>

(* pthread_join(t): returns once t has terminated.  Joining a thread that  *)
(* was joined before is undefined behaviour: the call may return an error  *)
(* (the destructors print it and go on) or fault on the freed descriptor.  *)
Terminated(t) == pc[t] = "done"

\* Lines 316-323.
MainJoin ==
    /\ Alive /\ pc["main"] = "m_join"
    /\ Terminated(JoinSeq[mi])
    /\ joined' = joined \cup {JoinSeq[mi]}
    /\ IF mi = Len(JoinSeq)
         THEN Goto("main", "m_close") /\ mi' = 0
         ELSE mi' = mi + 1 /\ pc' = pc
    /\ UNCHANGED <<frame, holder, running, vars_running, g_signal_run, run, run_state,
                   running_now, signal_type, rx_msg, proc, retval, stopIssued>>

\* Lines 325-332: close the endpoints, destroy the mutex, return 0.
MainClose ==
    /\ Alive /\ pc["main"] = "m_close"
    /\ inicializado_' = cerrar(inicializado_)
    /\ tx_inicializado_' = cerrar(tx_inicializado_)
    /\ retval' = 0
    /\ Goto("main", "m_dtor")
    /\ mi' = 1
    /\ UNCHANGED <<frame1, gainVars, holder, running, vars_running, g_signal_run, run, run_state,
                   running_now, signal_type, rx_msg, joined, proc, stopIssued>>

\* The task destructors (~Hilo, ~Hilo2in, ~HiloPID, ~HiloSwitch, ...): each
\* joins its thread; after the last one main's return value becomes the
\* exit code of the process.
MainDtor ==
    /\ Alive /\ pc["main"] = "m_dtor"
    /\ LET t == DtorSeq[mi]
           last == mi = Len(DtorSeq)
           goOn == /\ joined' = joined \cup {t}
                   /\ mi' = mi + 1
                   /\ IF last THEN Goto("main", "m_done") /\ proc' = "exit"
                              ELSE pc' = pc /\ proc' = proc
       IN IF t \in joined
            THEN \/ goOn
                 \/ proc' = "abort" /\ UNCHANGED <<pc, mi, joined>>
            ELSE Terminated(t) /\ goOn
    /\ UNCHANGED <<frame, holder, running, vars_running, g_signal_run, run, run_state,
                   running_now, signal_type, rx_msg, retval, stopIssued>>

----------------------------------------------------------------------------
(* The environment: process signals and the run/stop source.               *)

\* main is in its monitoring loop and its last reading of *running was true.
MainSawRunning ==
    /\ pc["main"] \in {"m_lockV", "m_rdV", "m_lockPar", "m_rdPar"}
    /\ running_now

\* SIGINT / SIGTERM once manejador_signal is installed by the monitor's
\* constructor (HiloIntArranque.cpp:10-17, 28).
DeliverSignal ==
    /\ Alive /\ pc["mon"] # "off"
    /\ g_signal_run = 1
    /\ g_signal_run' = 0
    /\ sigSeen' = MainSawRunning
    /\ UNCHANGED <<tasks, timerVars, logVars, gainVars, switchVars, blockVars, pidLogVars,
                   endpointVars, pc, holder, running, vars_running,
                   run, run_state, running_now, signal_type, rx_msg, mi, joined, proc,
                   retval, stopIssued>>

\* The user commands stop at the run/stop source.
UserStop ==
    /\ Alive
    /\ run = 1
    /\ run' = 0
    /\ UNCHANGED <<frame, pc, holder, running, vars_running, g_signal_run, run_state,
                   running_now, signal_type, rx_msg, mi, joined, proc, retval,
                   stopIssued>>

-----------------------------------------------------------------------------
(* Discrete blocks (src/src/DiscreteSystem.cpp and its variants), one block *)
(* used on its own.  Values are integers; parameters are drawn so that      *)
(* every division of the code is exact.                                     *)

BufferSize == 2
MaxSteps == 4
BlockKinds == {"pid", "ad", "da", "sum", "tf"}
BlockInputs == 0..2

\* Sum of x[i] * y[i + off] for i in lo..hi.
RECURSIVE Dot(_, _, _, _, _)
Dot(x, y, off, lo, hi) ==
    IF lo > hi THEN 0 ELSE x[lo] * y[lo + off] + Dot(x, y, off, lo + 1, hi)

\* DiscreteSystem::DiscreteSystem: the fields of the base class.
DiscreteSystem(kind, Ts) ==
    [kind |-> kind, Ts |-> Ts, k_ |-> 0, writeIndex_ |-> 0, count_ |-> 0,
     buffer_ |-> [i \in 0..(BufferSize - 1) |-> <<0, 0, 0>>],
     Kp_ |-> 0, Ki_ |-> 0, Kd_ |-> 0, eHist_ |-> <<>>, uHist_ |-> <<>>,
     b_ |-> <<>>, a_ |-> <<>>, yHist_ |-> <<>>,
     u_prev_ |-> 0, u_out_ |-> 0, e_out_ |-> 0]

\* The constructor's loop "for (auto &ai : a_) ai /= a_[0]": element i is
\* divided by the value a_[0] has when the loop reaches i.
RECURSIVE Normalize(_, _)
Normalize(a, i) ==
    IF i > Len(a) THEN a
    ELSE Normalize([a EXCEPT ![i] = a[i] \div a[1]], i + 1)

PIDController(Kp, Ki, Kd, Ts) ==
    [DiscreteSystem("pid", Ts) EXCEPT !.Kp_ = Kp, !.Ki_ = Ki, !.Kd_ = Kd]

ADConverter(Ts) == DiscreteSystem("ad", Ts)

DAConverter(Ts) == DiscreteSystem("da", Ts)

Sumador(Ts) == DiscreteSystem("sum", Ts)

TransferFunctionSystem(b, a, Ts) ==
    LET an == IF a # <<>> /\ a[1] # 1 THEN Normalize(a, 1) ELSE a
    IN  [DiscreteSystem("tf", Ts) EXCEPT
            !.b_ = b, !.a_ = an,
            !.uHist_ = [i \in 1..Len(b) |-> 0],
            !.yHist_ = [i \in 1..(Len(a) - 1) |-> 0]]

\* PIDController::compute reading both earlier errors from eHist_.back().
PidComputeOneBack(s, e_k) ==
    LET n == Len(s.eHist_)
        e_k1 == IF n >= 1 THEN s.eHist_[n] ELSE 0
        u_k1 == IF s.uHist_ # <<>> THEN s.uHist_[Len(s.uHist_)] ELSE 0
        a0 == s.Kp_ + s.Ki_ * s.Ts + s.Kd_ \div s.Ts
        a1 == (0 - s.Kp_) - (2 * s.Kd_) \div s.Ts
        a2 == s.Kd_ \div s.Ts
        u_k == u_k1 + (a0 * e_k + a1 * e_k1 + a2 * e_k1)
    IN  [exc |-> FALSE, y |-> u_k,
         s |-> [s EXCEPT !.eHist_ = Append(@, e_k), !.uHist_ = Append(@, u_k)]]

\* PIDController::compute.
PidCompute(s, e_k) ==
    LET n == Len(s.eHist_)
        e_k1 == IF n >= 1 THEN s.eHist_[n] ELSE 0
        e_k2 == IF n >= 2 THEN s.eHist_[n - 1] ELSE 0
        u_k1 == IF s.uHist_ # <<>> THEN s.uHist_[Len(s.uHist_)] ELSE 0
        a0 == s.Kp_ + s.Ki_ * s.Ts + s.Kd_ \div s.Ts
        a1 == (0 - s.Kp_) - (2 * s.Kd_) \div s.Ts
        a2 == s.Kd_ \div s.Ts
        u_k == u_k1 + (a0 * e_k + a1 * e_k1 + a2 * e_k2)
    IN  [exc |-> FALSE, y |-> u_k,
         s |-> [s EXCEPT !.eHist_ = Append(@, e_k), !.uHist_ = Append(@, u_k)]]

\* ADConverter::compute returning the sample it was just given.
AdComputeNoDelay(s, uk) ==
    [exc |-> FALSE, y |-> uk, s |-> [s EXCEPT !.u_prev_ = uk]]

\* ADConverter::compute.
AdCompute(s, uk) ==
    [exc |-> FALSE, y |-> s.u_prev_, s |-> [s EXCEPT !.u_prev_ = uk]]

\* DAConverter::compute.
DaCompute(s, uk) ==
    [exc |-> FALSE, y |-> uk, s |-> [s EXCEPT !.u_out_ = uk]]

\* Sumador::compute(double): throws.
SumCompute1(s, uk) == [exc |-> TRUE, y |-> 0, s |-> s]

\* Sumador::compute(ref, y).
SumCompute2(s, ref, y) ==
    [exc |-> FALSE, y |-> ref - y, s |-> [s EXCEPT !.e_out_ = ref - y]]

\* TransferFunctionSystem::compute.
TfCompute(s, uk) ==
    LET uH == [i \in 1..Len(s.uHist_) |-> IF i = 1 THEN uk ELSE s.uHist_[i - 1]]
        num == Dot(s.b_, uH, 0, 1, Len(s.b_))
        den == Dot(s.a_, s.yHist_, -1, 2, Len(s.a_))
        yk == (num - den) \div s.a_[1]
        yH == [i \in 1..Len(s.yHist_) |-> IF i = 1 THEN yk ELSE s.yHist_[i - 1]]
    IN  [exc |-> FALSE, y |-> yk, s |-> [s EXCEPT !.uHist_ = uH, !.yHist_ = yH]]

\* The virtual call compute(uk).
Compute(s, uk) ==
    CASE s.kind = "pid" -> PidCompute(s, uk)
      [] s.kind = "ad"  -> AdCompute(s, uk)
      [] s.kind = "da"  -> DaCompute(s, uk)
      [] s.kind = "sum" -> SumCompute1(s, uk)
      [] s.kind = "tf"  -> TfCompute(s, uk)

\* DiscreteSystem::storeSample.
storeSample(s, uk, yk) ==
    [s EXCEPT !.buffer_ = [@ EXCEPT ![s.writeIndex_] = <<uk, yk, s.k_>>],
              !.count_ = IF @ < BufferSize THEN @ + 1 ELSE @,
              !.writeIndex_ = (@ + 1) % BufferSize]

\* What follows compute in DiscreteSystem::next: the sample is stored and
\* k_ advances; an exception of compute leaves before both.
AfterCompute(r, in1) ==
    IF r.exc THEN r
    ELSE [r EXCEPT !.s = [storeSample(r.s, in1, r.y) EXCEPT !.k_ = @ + 1]]

\* DiscreteSystem::next(uk) storing the sample before compute is called.
nextStoreFirst(s, uk) == Compute([storeSample(s, uk, 0) EXCEPT !.k_ = @ + 1], uk)

\* DiscreteSystem::next(uk).
next(s, uk) == AfterCompute(Compute(s, uk), uk)

\* DiscreteSystem::next(in1, in2) on a Sumador.
next2(s, in1, in2) == AfterCompute(SumCompute2(s, in1, in2), in1)

\* resetState of each variant.
resetState(s) ==
    CASE s.kind = "pid" -> [s EXCEPT !.eHist_ = <<>>, !.uHist_ = <<>>]
      [] s.kind = "ad"  -> [s EXCEPT !.u_prev_ = 0]
      [] s.kind = "da"  -> [s EXCEPT !.u_out_ = 0]
      [] s.kind = "sum" -> [s EXCEPT !.e_out_ = 0]
      [] s.kind = "tf"  -> s

\* DiscreteSystem::reset: prints a line.
reset(s) == s

\* The outputs of block s for the inputs xs, one next(uk) per input.
RECURSIVE Outputs(_, _)
Outputs(s, xs) ==
    IF xs = <<>> THEN <<>>
    ELSE LET r == IF s.kind = "sum" THEN next2(s, xs[1][1], xs[1][2])
                                    ELSE next(s, xs[1])
         IN  <<r.y>> \o Outputs(r.s, Tail(xs))

\* The parameters a block of each variant is constructed with.
BlockParams ==
    [kind : {"pid"}, Kp : 1..2, Ki : 0..1, Kd : {0, 2}, Ts : 1..2, b : {<<>>}, a : {<<>>}]
    \cup [kind : {"ad", "da", "sum"}, Kp : {0}, Ki : {0}, Kd : {0}, Ts : {1}, b : {<<>>}, a : {<<>>}]
    \cup [kind : {"tf"}, Kp : {0}, Ki : {0}, Kd : {0}, Ts : {1},
          b : {<<2>>, <<2, 4>>}, a : {<<1, 2>>, <<2, 2>>, <<2, 4>>}]

Construct(p) ==
    CASE p.kind = "pid" -> PIDController(p.Kp, p.Ki, p.Kd, p.Ts)
      [] p.kind = "ad"  -> ADConverter(p.Ts)
      [] p.kind = "da"  -> DAConverter(p.Ts)
      [] p.kind = "sum" -> Sumador(p.Ts)
      [] p.kind = "tf"  -> TransferFunctionSystem(p.b, p.a, p.Ts)

blkRest == <<tasks, pc, holder, running, vars_running, g_signal_run, run, run_state,
             running_now, signal_type, rx_msg, mi, joined, proc, retval, stopIssued,
             sigSeen, gainVars, switchVars, endpointVars, timerVars, logVars, pidLogVars>>

\* One call of next(uk) by the block's owner.
BlkNext(uk) ==
    /\ blk.k_ < MaxSteps
    /\ LET r == next(blk, uk)
       IN  /\ blk' = r.s
           /\ blk_exc' = r.exc
           /\ blk_in' = IF r.exc THEN blk_in ELSE Append(blk_in, uk)
           /\ blk_out' = IF r.exc THEN blk_out ELSE Append(blk_out, r.y)
    /\ UNCHANGED <<blk_par, blk_reset, blkRest>>

\* One call of next(in1, in2) on a Sumador.
BlkNext2(in1, in2) ==
    /\ blk.kind = "sum"
    /\ blk.k_ < MaxSteps
    /\ LET r == next2(blk, in1, in2)
       IN  /\ blk' = r.s
           /\ blk_exc' = r.exc
           /\ blk_in' = Append(blk_in, <<in1, in2>>)
           /\ blk_out' = Append(blk_out, r.y)
    /\ UNCHANGED <<blk_par, blk_reset, blkRest>>

\* One call of reset(); blk_in and blk_out restart with it.
BlkReset ==
    /\ blk.k_ > 0
    /\ blk_reset = "none"
    /\ blk' = reset(blk)
    /\ blk_reset' = "reset"
    /\ blk_in' = <<>> /\ blk_out' = <<>> /\ blk_exc' = FALSE
    /\ UNCHANGED <<blk_par, blkRest>>

\* One direct call of resetState().
BlkResetState ==
    /\ blk.k_ > 0
    /\ blk_reset = "none"
    /\ blk' = resetState(blk)
    /\ blk_reset' = "resetState"
    /\ blk_in' = <<>> /\ blk_out' = <<>> /\ blk_exc' = FALSE
    /\ UNCHANGED <<blk_par, blkRest>>

BlkIdle ==
    /\ blk_par = [kind |-> "ad", Kp |-> 0, Ki |-> 0, Kd |-> 0, Ts |-> 1,
                  b |-> <<>>, a |-> <<>>]
    /\ blk = Construct(blk_par)
    /\ blk_in = <<>> /\ blk_out = <<>> /\ blk_exc = FALSE /\ blk_reset = "none"

BlocksNext ==
    \/ \E uk \in BlockInputs : BlkNext(uk)
    \/ \E in1, in2 \in BlockInputs : BlkNext2(in1, in2)
    \/ BlkReset
    \/ BlkResetState

-----------------------------------------------------------------------------
(* The PID task's own timing buffer (src/src/HiloPID.cpp), one task on its *)
(* own.  A row of the buffer and of the file is the iteration it is for.   *)

\* MAX_LOG_ENTRIES, 1000 in the program.
MaxLogEntries == 3
MaxPidIter == 5

pidLogRest == <<tasks, pc, holder, running, vars_running, g_signal_run, run, run_state,
                running_now, signal_type, rx_msg, mi, joined, proc, retval, stopIssued,
                sigSeen, gainVars, switchVars, endpointVars, timerVars, logVars,
                blockVars>>

\* HiloPID::HiloPID: timing_buffer_.resize(MAX_LOG_ENTRIES), iterations_(0).
PidLogInit ==
    /\ timing_buffer_ = [i \in 0..(MaxLogEntries - 1) |-> 0]
    /\ pid_iterations_ = 0
    /\ pid_logged = <<>>
    /\ pid_logfile = <<>>
    /\ pid_phase = "loop"

\* HiloPID::logTiming.
logTiming(iteration) ==
    /\ timing_buffer_' = [timing_buffer_ EXCEPT ![(iteration - 1) % MaxLogEntries] = iteration]
    /\ pid_logged' = Append(pid_logged, iteration)

\* A pass of the loop that ends in logTiming: the cycle has run, or the
\* trylock found the mutex busy for more than 80% of the period.
PidPassLogged ==
    /\ pid_phase = "loop"
    /\ pid_iterations_ < MaxPidIter
    /\ pid_iterations_' = pid_iterations_ + 1
    /\ logTiming(pid_iterations_')
    /\ UNCHANGED <<pid_logfile, pid_phase, pidLogRest>>

\* A pass of the loop that skips the cycle without a row: the trylock found
\* the mutex busy for a shorter time, or failed with another code.
PidPassSkipped ==
    /\ pid_phase = "loop"
    /\ pid_iterations_ < MaxPidIter
    /\ pid_iterations_' = pid_iterations_ + 1
    /\ UNCHANGED <<timing_buffer_, pid_logged, pid_logfile, pid_phase, pidLogRest>>

\* The pass of the loop that reads running as false and breaks.
PidPassStop ==
    /\ pid_phase = "loop"
    /\ pid_iterations_' = pid_iterations_ + 1
    /\ pid_phase' = "exited"
    /\ UNCHANGED <<timing_buffer_, pid_logged, pid_logfile, pidLogRest>>

\* The entries i with lo <= i < hi of the buffer, in order.
Entries(lo, hi) == [j \in 1..(hi - lo) |-> timing_buffer_[lo + j - 1]]

\* The rows HiloPID::flushLogBuffer writes.
flushLogBuffer ==
    LET num_entries == IF pid_iterations_ < MaxLogEntries THEN pid_iterations_
                                                          ELSE MaxLogEntries
        oldest_index == pid_iterations_ % MaxLogEntries
    IN  IF pid_iterations_ <= MaxLogEntries
        THEN Entries(0, num_entries)
        ELSE Entries(oldest_index, MaxLogEntries) \o Entries(0, oldest_index)

\* HiloPID::~HiloPID after the join: the file is written, or could not be
\* opened.
PidFlush ==
    /\ pid_phase = "exited"
    /\ pid_phase' = "flushed"
    /\ \/ pid_logfile' = flushLogBuffer
       \/ pid_logfile' = pid_logfile
    /\ UNCHANGED <<timing_buffer_, pid_iterations_, pid_logged, pidLogRest>>

PidLogNext == PidPassLogged \/ PidPassSkipped \/ PidPassStop \/ PidFlush

----------------------------------------------------------------------------
(* SignalSwitch (src/src/SignalSwitch.cpp), one object used on its own.    *)

MaxSamples == 2
Generators == {"step", "pwm", "sine"}

\* Values a caller may pass as selector.
SelectorInputs == -1 .. 3

\* Everything but the switch.
swRest == <<tasks, pc, holder, running, vars_running, g_signal_run, run, run_state,
            running_now, signal_type, rx_msg, mi, joined, proc, retval, stopIssued,
            sigSeen, gainVars, endpointVars, timerVars, logVars, blockVars, pidLogVars>>

\* SignalSwitch::SignalSwitch; nulls: one of the three signals is nullptr.
\* A constructor that throws leaves no object behind.
SwCtor(nulls, initialSelector) ==
    /\ ~sw_live
    /\ IF nulls \/ initialSelector < 0 \/ initialSelector > 2
         THEN sw_exc' = "invalid_argument" /\ UNCHANGED <<sw_live, selector_>>
         ELSE sw_exc' = "none" /\ sw_live' = TRUE /\ selector_' = initialSelector
    /\ UNCHANGED <<sw_signals, swRest>>

\* A setSelector that stores the value before it validates it.
setSelectorStoreFirst(selector) ==
    /\ sw_live
    /\ selector_' = selector
    /\ sw_exc' = IF selector < 0 \/ selector > 2 THEN "invalid_argument" ELSE "none"
    /\ UNCHANGED <<sw_live, sw_signals, swRest>>

\* SignalSwitch::setSelector
setSelector(selector) ==
    /\ sw_live
    /\ IF selector < 0 \/ selector > 2
         THEN sw_exc' = "invalid_argument" /\ UNCHANGED selector_
         ELSE sw_exc' = "none" /\ selector_' = selector
    /\ UNCHANGED <<sw_live, sw_signals, swRest>>

\* The generator each selector value stands for.
Selected(sel) == CASE sel = 0 -> "step" [] sel = 1 -> "pwm" [] sel = 2 -> "sine"
                   [] OTHER -> "none"

\* SignalSwitch::next
SwNext ==
    /\ sw_live
    /\ IF Selected(selector_) = "none"
         THEN sw_exc' = "logic_error" /\ UNCHANGED sw_signals
         ELSE /\ sw_signals[Selected(selector_)] < MaxSamples
              /\ sw_signals' = [sw_signals EXCEPT ![Selected(selector_)] = @ + 1]
              /\ sw_exc' = "none"
    /\ UNCHANGED <<sw_live, selector_, swRest>>

SwitchNext ==
    \/ \E nulls \in BOOLEAN, s \in SelectorInputs : SwCtor(nulls, s)
    \/ \E s \in SelectorInputs : setSelector(s)
    \/ SwNext

----------------------------------------------------------------------------
(* Initial state of the pipeline: main at testHilo.cpp:114.                *)

PipeFields ==
    /\ holder = [m \in Mutexes |-> "none"]
    /\ running = FALSE
    /\ vars_running = TRUE
    /\ g_signal_run = 1
    /\ run = 1
    /\ run_state = 1
    /\ running_now = FALSE
    /\ signal_type = 0
    /\ rx_msg = 0
    /\ gains = [f \in GainFields |-> 0]
    /\ received = 0
    /\ pid_g = [f \in GainFields |-> 0]
    /\ applied = [f \in GainFields |-> 0]
    /\ cycle_upd = 0
    /\ inicializado_ = FALSE
    /\ tx_inicializado_ = FALSE
    /\ sw_live = FALSE
    /\ selector_ = 0
    /\ sw_signals = [g \in Generators |-> 0]
    /\ sw_exc = "none"
    /\ mi = 1
    /\ joined = {}
    /\ proc = "run"
    /\ retval = -1
    /\ stopIssued = FALSE
    /\ sigSeen = FALSE

PipeInit ==
    /\ tasks \in Configs
    /\ pc = [t \in Threads |-> IF t = "main" THEN "m_ctor" ELSE "off"]
    /\ PipeFields

\* The pipeline not assembled: the timer and the logger on their own.
PipeIdle ==
    /\ tasks = {}
    /\ pc = [t \in Threads |-> "off"]
    /\ PipeFields

MonThread == MonPoll \/ MonSigLock \/ MonSigStop \/ MonLock \/ MonWrite

PidThread ==
    \/ PidTryLock \/ PidSkip \/ PidCheck \/ PidLockParams
    \/ PidReadKp \/ PidReadKi \/ PidReadParams \/ PidSetGains \/ PidStep

RefThread ==
    \/ FlagLock("ref") \/ FlagCheck("ref")
    \/ RefLockParams \/ RefReadParams \/ RefLockOut \/ RefWriteOut

RxThread == FlagLock("rx") \/ FlagCheck("rx") \/ RxPoll \/ RxLockParams \/ RxStoreKp \/ RxStoreKi \/ RxStore \/ RxWait

HiloThread(t) == FlagLock(t) \/ FlagCheck(t) \/ HiloRead(t) \/ HiloWrite(t)

MainStep ==
    \/ MainSpawn \/ MainLockInit \/ MainInitKp \/ MainInitKi \/ MainInitParams
    \/ MainIpcInit
    \/ MainLockRun \/ MainReadRun \/ MainLockVars \/ MainReadVars
    \/ MainLockPar \/ MainReadPar
    \/ MainLockStop \/ MainWriteStop \/ MainLockVars2 \/ MainWriteVars
    \/ MainJoin \/ MainClose \/ MainDtor

PipeNext ==
    \/ MainStep
    \/ MonThread
    \/ PidThread
    \/ \E t \in FlagTasks : FlagLock(t)
    \/ \E t \in FlagTasks : FlagCheck(t)
    \/ \E t \in HiloTasks : HiloRead(t)
    \/ \E t \in HiloTasks : HiloWrite(t)
    \/ SumLockIn \/ SumReadIn \/ SumLockOut \/ SumWriteOut
    \/ RefLockParams \/ RefReadParams \/ RefLockOut \/ RefWriteOut
    \/ TxLockVars \/ TxSend
    \/ RxPoll \/ RxLockParams \/ RxStoreKp \/ RxStoreKi \/ RxStore \/ RxWait
    \/ DeliverSignal
    \/ UserStop

----------------------------------------------------------------------------
(* Temporizador and the timing of one periodic task (Hilo::run).  The      *)
(* clock counts ticks, TicksPerSec of them to the second (the code counts  *)
(* nanoseconds, 1000000000 to the second, Temporizador.cpp:38).            *)

TicksPerSec == 4
MaxPeriod == 10
MaxTime == 12
MaxIter == 3

\* The timespec as one instant.
Instant(sec, nsec) == sec * TicksPerSec + nsec

\* A relative timer: the deadline counted from the present instant.
AdvanceFromNow(sec, nsec, p) ==
    LET n == (now % TicksPerSec) + p
    IN IF n >= TicksPerSec THEN <<(now \div TicksPerSec) + 1, n - TicksPerSec>>
                           ELSE <<now \div TicksPerSec, n>>

\* Temporizador.cpp:35-41: add the period, carry at most one second.
Advance(sec, nsec, p) ==
    LET n == nsec + p
    IN IF n >= TicksPerSec THEN <<sec + 1, n - TicksPerSec>> ELSE <<sec, n>>

\* clock_nanosleep fails with EINVAL when tv_nsec is outside [0, 999999999].
ValidTimespec(nsec) == nsec >= 0 /\ nsec < TicksPerSec

\* A classification that tests the warning threshold first.
ClassifyWarnFirst(total, period) ==
    IF 10 * total > 9 * period THEN "WARNING"
    ELSE IF total > period THEN "CRITICAL"
    ELSE "OK"

\* Hilo.cpp:151-158.
Classify(total, period) ==
    IF total > period THEN "CRITICAL"
    ELSE IF 10 * total > 9 * period THEN "WARNING"
    ELSE "OK"

\* SystemConfig::WARNING_THRESHOLD and CRITICAL_THRESHOLD, times 100.
WarningPct == 90
CriticalPct == 100

\* Hilo2in.cpp:172-178: the percentage of the period used is compared with
\* the two thresholds.
Classify2in(total, period) ==
    IF 100 * total > CriticalPct * period THEN "CRITICAL"
    ELSE IF 100 * total > WarningPct * period THEN "WARNING"
    ELSE "OK"

\* Hilo.cpp:90-92: the timer is constructed and reads the clock.
TimerInit ==
    /\ period_ns \in 1..MaxPeriod
    /\ now \in 0..(TicksPerSec - 1)
    /\ t0 = now
    /\ next_sec = now \div TicksPerSec
    /\ next_nsec = now % TicksPerSec
    /\ nwaits = 0
    /\ iterations = 0
    /\ iter_t0 = now
    /\ t_total = 0
    /\ status = "none"
    /\ wret = 0
    /\ tphase = "iter"
    /\ task_class \in {"Hilo", "Hilo2in"}
    /\ t_ejecucion = 0

TimerIdle ==
    /\ period_ns = 1 /\ now = 0 /\ t0 = 0 /\ next_sec = 0 /\ next_nsec = 0
    /\ nwaits = 0 /\ iterations = 0 /\ iter_t0 = 0 /\ t_total = 0
    /\ status = "none" /\ wret = 0 /\ tphase = "off" /\ task_class = "Hilo"
    /\ t_ejecucion = 0

\* HiloTransmisor::run and HiloReceptor::run call timer.esperar() before
\* they read t3 and write the row (HiloTransmisor.cpp:120-132,
\* HiloReceptor.cpp:121-133).
WaitsFirst == task_class \in {"HiloTransmisor", "HiloReceptor"}

\* Where the loop goes on when esperar() has returned.
AfterWait == IF WaitsFirst THEN "end" ELSE "iter"

\* The monotonic clock advances.
ClockTick ==
    /\ now < MaxTime
    /\ now' = now + 1
    /\ UNCHANGED <<pipeVars, logVars, task_class, t_ejecucion, next_sec, next_nsec, period_ns, t0, nwaits,
                   iterations, iter_t0, t_total, status, wret, tphase>>

\* Hilo.cpp:95-97: count the iteration and read t0.
IterStart ==
    /\ tphase = "iter"
    /\ iterations < MaxIter
    /\ iterations' = iterations + 1
    /\ iter_t0' = now
    /\ tphase' = "work"
    /\ UNCHANGED <<pipeVars, logVars, task_class, t_ejecucion, next_sec, next_nsec, period_ns, now, t0,
                   nwaits, t_total, status, wret>>

\* Hilo.cpp:146-160, Hilo2in.cpp:152-182: read the clock, classify the
\* iteration, hand the row to the logger.
IterEnd ==
    /\ tphase = "work"
    /\ ~WaitsFirst
    /\ t_total' = now - iter_t0
    /\ t_ejecucion' = now - iter_t0
    /\ status' = IF task_class = "Hilo2in" THEN Classify2in(now - iter_t0, period_ns)
                                           ELSE Classify(now - iter_t0, period_ns)
    /\ tphase' = "log"
    /\ UNCHANGED <<pipeVars, logVars, task_class, next_sec, next_nsec, period_ns, now, t0,
                   nwaits, iterations, iter_t0, wret>>

\* Temporizador::esperar: advance the deadline and call clock_nanosleep,
\* which fails at once on an invalid timespec, returns at once when the
\* deadline has passed, and blocks otherwise.
Esperar ==
    /\ tphase = (IF WaitsFirst THEN "work" ELSE "log")
    /\ t_ejecucion' = (IF WaitsFirst THEN now - iter_t0 ELSE t_ejecucion)
    /\ LET nx == Advance(next_sec, next_nsec, period_ns)
       IN /\ next_sec' = nx[1]
          /\ next_nsec' = nx[2]
          /\ IF ~ValidTimespec(nx[2])
               THEN wret' = 22 /\ tphase' = AfterWait
               ELSE IF now >= Instant(nx[1], nx[2])
                      THEN wret' = 0 /\ tphase' = AfterWait
                      ELSE wret' = wret /\ tphase' = "sleep"
    /\ nwaits' = nwaits + 1
    /\ UNCHANGED <<pipeVars, logVars, task_class, period_ns, now, t0, iterations, iter_t0,
                   t_total, status>>

\* clock_nanosleep returns 0 once the clock has reached the deadline.
Wake ==
    /\ tphase = "sleep"
    /\ now >= Instant(next_sec, next_nsec)
    /\ wret' = 0
    /\ tphase' = AfterWait
    /\ UNCHANGED <<pipeVars, logVars, task_class, t_ejecucion, next_sec, next_nsec, period_ns, now, t0,
                   nwaits, iterations, iter_t0, t_total, status>>

\* HiloTransmisor.cpp:122-132, HiloReceptor.cpp:123-133: after the wait,
\* read t3, classify t3 - t0 and hand the row to the logger.
IterEndAfterWait ==
    /\ tphase = "end"
    /\ t_total' = now - iter_t0
    /\ status' = Classify(now - iter_t0, period_ns)
    /\ tphase' = "iter"
    /\ UNCHANGED <<pipeVars, logVars, task_class, t_ejecucion, next_sec, next_nsec,
                   period_ns, now, t0, nwaits, iterations, iter_t0, wret>>

TimerNext == ClockTick \/ IterStart \/ IterEnd \/ Esperar \/ Wake

\* The loop of the transmitter and receiver tasks.
TimerIONext == ClockTick \/ IterStart \/ Esperar \/ Wake \/ IterEndAfterWait

----------------------------------------------------------------------------
(* RuntimeLogger.  Line k is the k-th line handed to writeLine.            *)

MaxCap == 3
MaxLines == 5
MaxInterval == 2

\* The test of a writeLine that finds the buffer at capacity + 1 only.
FullOffByOne(buf, cap) == Len(buf) > cap

\* RuntimeLogger.cpp:53.
Full(buf, cap) == Len(buf) >= cap

\* An eviction that drops the newest line of the buffer.
EvictNewest(buf) == SubSeq(buf, 1, Len(buf) - 1)

\* RuntimeLogger.cpp:54: pop_front.
Evict(buf) == Tail(buf)

\* RuntimeLogger.cpp:14-16: empty buffer, flush interval 100.
LogInit ==
    /\ max_lines \in 1..MaxCap
    /\ log_buffer = <<>>
    /\ flush_interval = 100
    /\ lines_since_flush = 0
    /\ file = <<>>
    /\ lineNo = 0
    /\ opened = FALSE
    /\ destroyed = FALSE

LogIdle ==
    /\ max_lines = 1 /\ log_buffer = <<>> /\ flush_interval = 100
    /\ lines_since_flush = 0 /\ file = <<>> /\ lineNo = 0
    /\ opened = FALSE /\ destroyed = FALSE

\* A writeToFile that opens the file for appending.
writeToFileAppend(buf) ==
    \/ opened' = TRUE /\ file' = file \o buf
    \/ opened' = FALSE /\ file' = file

\* RuntimeLogger::writeToFile: the file is truncated and rewritten with the
\* buffer, or left as it is when it cannot be opened.
writeToFile(buf) ==
    \/ opened' = TRUE /\ file' = buf
    \/ opened' = FALSE /\ file' = file

\* A writeLine that refuses lines once the file could not be opened.
writeLineNeedsFile(force_flush) ==
    /\ ~destroyed
    /\ lineNo < MaxLines
    /\ opened \/ lines_since_flush = lineNo
    /\ LET line == lineNo + 1
           kept == IF Full(log_buffer, max_lines) THEN Evict(log_buffer) ELSE log_buffer
           buf == Append(kept, line)
       IN /\ log_buffer' = buf
          /\ lineNo' = line
          /\ IF force_flush \/ (flush_interval > 0 /\ lines_since_flush + 1 >= flush_interval)
               THEN writeToFile(buf) /\ lines_since_flush' = 0
               ELSE UNCHANGED <<file, opened>> /\ lines_since_flush' = lines_since_flush + 1
    /\ UNCHANGED <<pipeVars, timerVars, max_lines, flush_interval, destroyed>>

\* RuntimeLogger::writeLine(line, force_flush)
writeLine(force_flush) ==
    /\ ~destroyed
    /\ lineNo < MaxLines
    /\ LET line == lineNo + 1
           kept == IF Full(log_buffer, max_lines) THEN Evict(log_buffer) ELSE log_buffer
           buf == Append(kept, line)
       IN /\ log_buffer' = buf
          /\ lineNo' = line
          /\ IF force_flush \/ (flush_interval > 0 /\ lines_since_flush + 1 >= flush_interval)
               THEN writeToFile(buf) /\ lines_since_flush' = 0
               ELSE UNCHANGED <<file, opened>> /\ lines_since_flush' = lines_since_flush + 1
    /\ UNCHANGED <<pipeVars, timerVars, max_lines, flush_interval, destroyed>>

\* RuntimeLogger::flush
flush ==
    /\ ~destroyed
    /\ writeToFile(log_buffer)
    /\ lines_since_flush' = 0
    /\ UNCHANGED <<pipeVars, timerVars, log_buffer, max_lines, flush_interval, lineNo,
                   destroyed>>

\* RuntimeLogger::setFlushInterval(interval)
setFlushInterval(interval) ==
    /\ ~destroyed
    /\ flush_interval' = interval
    /\ UNCHANGED <<pipeVars, timerVars, log_buffer, max_lines, lines_since_flush,
                   file, lineNo, opened, destroyed>>

\* RuntimeLogger::~RuntimeLogger: one last flush.
Destroy ==
    /\ ~destroyed
    /\ destroyed' = TRUE
    /\ writeToFile(log_buffer)
    /\ lines_since_flush' = 0
    /\ UNCHANGED <<pipeVars, timerVars, log_buffer, max_lines, flush_interval, lineNo>>

LogNext ==
    \/ \E force_flush \in BOOLEAN : writeLine(force_flush)
    \/ flush
    \/ \E interval \in 0..MaxInterval : setFlushInterval(interval)
    \/ Destroy

----------------------------------------------------------------------------
(* Specifications.                                                         *)

Init == PipeInit /\ TimerIdle /\ LogIdle /\ BlkIdle /\ PidLogInit

\* The assembled pipeline.
Spec == Init /\ [][PipeNext]_vars

\* One timed task and its timer.
InitTimer == PipeIdle /\ TimerInit /\ LogIdle /\ BlkIdle /\ PidLogInit

SpecTimer == InitTimer /\ [][TimerNext]_vars

\* One logger.
InitLogger == PipeIdle /\ TimerIdle /\ LogInit /\ BlkIdle /\ PidLogInit

SpecLogger == InitLogger /\ [][LogNext]_vars

(* Start-up and shutdown of main, the monitor, the PID task and one        *)
(* one-input task, every thread scheduled again and again (preemptive OS   *)
(* threads: a thread that can run is eventually run).                      *)
ShutdownTasks == {"mon", "pid", "da"}

InitShutdown ==
    /\ tasks = ShutdownTasks
    /\ pc = [t \in Threads |-> IF t = "main" THEN "m_ctor" ELSE "off"]
    /\ PipeFields
    /\ TimerIdle
    /\ LogIdle
    /\ BlkIdle /\ PidLogInit

ShutdownNext ==
    \/ MainStep
    \/ MonThread
    \/ PidThread
    \/ HiloThread("da")
    \/ DeliverSignal
    \/ UserStop

Fairness ==
    /\ WF_vars(MainStep)
    /\ WF_vars(MonThread)
    /\ WF_vars(PidThread)
    /\ WF_vars(HiloThread("da"))

SpecShutdown == InitShutdown /\ [][ShutdownNext]_vars /\ Fairness

----------------------------------------------------------------------------
(* Properties.                                                             *)

\* The mutex the thread is about to block on, "none" when its next step
\* locks nothing (the PID task's trylock never blocks).
Wants(t) ==
    CASE t \in FlagTasks /\ pc[t] = "top" -> "mtx"
      [] t = "sum" /\ pc[t] \in {"rl", "wl"} -> "mtx"
      [] t = "ref" /\ pc[t] = "pl" -> "params"
      [] t = "ref" /\ pc[t] = "wl" -> "mtx"
      [] t = "pid" /\ pc[t] = "pl" -> "params"
      [] t = "tx" /\ pc[t] = "vl" -> "vars"
      [] t = "rx" /\ pc[t] = "pl" -> "params"
      [] t = "mon" /\ pc[t] \in {"sl", "wl"} -> "mtx"
      [] t = "main" /\ pc[t] = "m_ctor" /\ CtorSeq[mi] = "#params" -> "mtx"
      [] t = "main" /\ pc[t] \in {"m_loop", "m_stop"} -> "mtx"
      [] t = "main" /\ pc[t] \in {"m_lockV", "m_lockV2"} -> "vars"
      [] t = "main" /\ pc[t] = "m_lockPar" -> "params"
      [] OTHER -> "none"

\* The thread that holds the mutex t is blocked on, "none" if t is not blocked.
Blocker(t) == IF Wants(t) = "none" THEN "none" ELSE holder[Wants(t)]

\* Following at most n waits-for edges from a leads to b.
RECURSIVE Reaches(_, _, _)
Reaches(a, b, n) ==
    /\ n > 0
    /\ Blocker(a) # "none"
    /\ (Blocker(a) = b \/ Reaches(Blocker(a), b, n - 1))

\* Two accesses to one field, at least one of them a write.
Conflict(a, b) == a[1] = b[1] /\ a[2] = b[2] /\ "w" \in {a[3], b[3]}

\* C1: every access to a field of the pipeline cell or of the parameter cell
\* is made by a thread that holds that cell's own mutex, and no two threads
\* are at conflicting accesses to one field at the same time.
C1_AccessUnderOwnMutex ==
    /\ \A t \in Threads : \A a \in Access(t) : holder[a[1]] = t
    /\ \A t1, t2 \in Threads :
          t1 # t2 => \A a \in Access(t1) : \A b \in Access(t2) : ~Conflict(a, b)

\* C2: once false has been written to the stop flag, a task that takes its
\* stop check leaves its loop (the tasks that read *running, and the PID task).
C2_StopSeenAtNextCheck ==
    [][stopIssued =>
         /\ \A t \in FlagTasks : (pc[t] = "chk" /\ pc'[t] # "chk") => pc'[t] = "done"
         /\ (pc["pid"] = "chk" /\ pc'["pid"] # "chk") => pc'["pid"] = "done"]_vars

\* C3: no thread is blocked on a mutex in a cycle of threads each waiting
\* for a mutex the next one holds (a thread waiting for a mutex it holds
\* itself included).
C3_NoLockCycle == \A t \in Threads : ~Reaches(t, t, Cardinality(Threads))

\* C3 witness: hold and wait, two deep: main is blocked on vars->mtx, held by
\* the PID task, which is blocked on params->mtx, held by the receiver.
C3_Witness ==
    /\ pc["main"] = "m_lockV" /\ holder["vars"] = "pid"
    /\ pc["pid"] = "pl" /\ holder["params"] = "rx"

\* C4: when a signal was delivered to the running simulator and main has
\* returned 0, the process ends with main's return value as its exit code.
C4_SignalExitsZero ==
    (sigSeen /\ retval = 0 /\ proc # "run") => proc = "exit"

\* C5: after a failed initialisation of an IPC endpoint (main returning 1)
\* the process eventually terminates: every join of the destructors returns.
C5_InitFailureTerminates == (retval = 1) ~> (proc = "exit")

\* C6: no thread holds two mutexes at the same time.
C6_AtMostOneMutex == \A t \in Threads : Cardinality(Held(t)) <= 1

\* C7: after n waits the stored deadline is t0 + n * period, and a wait
\* has not returned before the clock reached that deadline.
C7_AbsoluteDeadline ==
    /\ Instant(next_sec, next_nsec) = t0 + nwaits * period_ns
    /\ (tphase = "iter" /\ nwaits > 0) => now >= t0 + nwaits * period_ns

\* C8: an iteration whose total time exceeded the period is logged CRITICAL
\* and the wait that follows it does not block; the iteration counter never
\* decreases and grows by one with every iteration started.
C8_OverrunGoesOn ==
    /\ [](t_total > period_ns => status = "CRITICAL" /\ tphase # "sleep")
    /\ [][/\ iterations' >= iterations
          /\ (tphase = "iter" /\ tphase' = "work") => iterations' = iterations + 1]_vars

\* C8 witness: the second iteration overran a valid deadline and its wait
\* returned 0 at once, leaving the task ready for its third iteration.
C8_Witness ==
    /\ iterations = 2 /\ nwaits = 2 /\ tphase = "iter"
    /\ t_total > period_ns /\ status = "CRITICAL"
    /\ wret = 0 /\ ValidTimespec(next_nsec)

\* C9: the signal-switch task is never unwound by an exception, whatever
\* signal_type the receiver stored.
C9_SwitchNeverThrows == pc["ref"] # "threw"

\* C10: the buffer never holds more than max_lines lines, and a writeLine on
\* a full buffer leaves the buffer without its oldest line and with the new
\* line at the end.
C10_BoundedFifo ==
    /\ [](Len(log_buffer) <= max_lines)
    /\ [][(lineNo' # lineNo /\ Len(log_buffer) = max_lines)
            => log_buffer' = Append(Tail(log_buffer), lineNo')]_vars

\* C10 witness: more lines written than the capacity; the buffer is full and
\* starts at the oldest line not evicted.
C10_Witness ==
    /\ lineNo > max_lines
    /\ Len(log_buffer) = max_lines
    /\ log_buffer[1] = lineNo - max_lines + 1

\* The k-th to the m-th line written, in the order written.
Lines(k, m) == [i \in 1..(m - k + 1) |-> k + i - 1]

\* C11: after m lines have been written the buffer holds the lines m-C+1..m
\* in insertion order when m >= C and the lines 1..m otherwise, whatever
\* flushes were interleaved.
C11_MostRecentWindow ==
    log_buffer = IF lineNo >= max_lines THEN Lines(lineNo - max_lines + 1, lineNo)
                                        ELSE Lines(1, lineNo)

\* C11 witness: a capacity of at least two overflowed by two lines or more,
\* with a flush made before the last write (the file lags the buffer).
C11_Witness ==
    /\ max_lines >= 2 /\ lineNo >= max_lines + 2
    /\ file # <<>> /\ file # log_buffer
    /\ log_buffer = Lines(lineNo - max_lines + 1, lineNo)

\* C12 as stated: after every writeLine the file holds exactly the lines
\* buffered.
C12_FileEqualsBuffer == [][lineNo' # lineNo => file' = log_buffer']_vars

\* C12 amended: the file changes only by being rewritten with exactly the
\* lines then buffered, and after a destructor whose flush could open the
\* file it holds the final buffer.
C12_FileIsLastFlushedWindow ==
    /\ [][file' # file => file' = log_buffer']_vars
    /\ []((destroyed /\ opened) => file = log_buffer)

\* C12 witness: a logger that overflowed its capacity, was flushed earlier
\* and has been destroyed with the file opened: the file is the final window.
C12_Witness ==
    /\ destroyed /\ opened
    /\ lineNo > max_lines /\ max_lines >= 2
    /\ file = log_buffer /\ Len(file) = max_lines

\* C13: a PID cycle whose lock attempt fails logs a row with status
\* ERROR_MUTEX before it goes on to the next period: the task never skips a
\* period without that row.
C13_ErrorRowOnBusy == pc["pid"] # "skip"

\* C14: a lock attempt of the PID task made while the stop flag is false
\* leads to the check of the flag, also when the mutex is held by another
\* thread: the task does not skip to the next period.
C14_StopCheckedEveryPeriod ==
    [][(pc["pid"] = "top" /\ ~vars_running /\ pc'["pid"] # "top")
          => pc'["pid"] = "chk"]_vars

----------------------------------------------------------------------------
(* Main, the monitor, the PID task and the receiver: the parameter cell    *)
(* written by main and by the receiver, read by the PID task.              *)
GainsTasks == {"mon", "pid", "rx"}

InitGains ==
    /\ tasks = GainsTasks
    /\ pc = [t \in Threads |-> IF t = "main" THEN "m_ctor" ELSE "off"]
    /\ PipeFields
    /\ TimerIdle
    /\ LogIdle
    /\ BlkIdle /\ PidLogInit

GainsNext ==
    \/ MainStep
    \/ MonThread
    \/ PidThread
    \/ RxThread
    \/ DeliverSignal
    \/ UserStop

SpecGains == InitGains /\ [][GainsNext]_vars

\* C15: the gains the PID task has read in a cycle, and the gains the
\* controller steps with, all come from one update of the parameter cell.
C15_GainsFromOneUpdate ==
    /\ pc["pid"] \in {"hd", "st"} => pid_g["kp"] = pid_g["ki"]
    /\ pc["pid"] = "st" => pid_g["ki"] = pid_g["kd"]
    /\ applied["kp"] = applied["ki"] /\ applied["ki"] = applied["kd"]

\* C15 witness: the controller has stepped with the values main wrote, and
\* the PID task is about to read the cell while the receiver is in the middle
\* of storing a message.
C15_Witness ==
    /\ applied = [f \in GainFields |-> 1]
    /\ pc["rx"] = "hi" /\ gains["kp"] = 2 /\ gains["ki"] = 1
    /\ pc["pid"] = "pl" /\ cycle_upd = 1

\* C16: a PID cycle that executes a step steps with gains at least as new as
\* the last update complete when the cycle began.
C16_NewGainsAtNextCycle ==
    [][(pc["pid"] = "st" /\ pc'["pid"] = "top")
          => \A f \in GainFields : applied'[f] >= cycle_upd]_vars

\* C16 witness: the cell was updated by a message between two PID cycles and
\* the cycle begun after it has stepped with the gains of that message.
C16_Witness ==
    /\ cycle_upd = 2 /\ applied = [f \in GainFields |-> 2]
    /\ pc["pid"] = "top" /\ received = 1

\* C17: once the shared mutex has been destroyed, every task thread of the
\* run, the monitor included, has terminated and has been joined.
C17_DestroyAfterJoin ==
    MtxDestroyed => \A t \in tasks : Terminated(t) /\ t \in joined

----------------------------------------------------------------------------
(* A SignalSwitch driven by arbitrary calls.                               *)
InitSwitch == PipeIdle /\ TimerIdle /\ LogIdle /\ BlkIdle /\ PidLogInit

SpecSwitch == InitSwitch /\ [][SwitchNext]_vars

----------------------------------------------------------------------------
(* The receiver task polling a Receptor that may or may not have been      *)
(* initialised, next to the reference task that reads the cell; no stop    *)
(* comes.                                                                  *)
ReceptorTasks == {"rx", "ref"}

InitReceptor ==
    /\ tasks = ReceptorTasks
    /\ pc = [t \in Threads |-> IF t \in ReceptorTasks THEN "top" ELSE "off"]
    /\ holder = [m \in Mutexes |-> "none"]
    /\ running = TRUE /\ vars_running = TRUE
    /\ g_signal_run = 1 /\ run = 1 /\ run_state = 1 /\ running_now = TRUE
    /\ signal_type = 0 /\ rx_msg = 0
    /\ gains = [f \in GainFields |-> 1]
    /\ applied = [f \in GainFields |-> 1]
    /\ pid_g = [f \in GainFields |-> 0]
    /\ received = 0 /\ cycle_upd = 0
    /\ inicializado_ \in BOOLEAN
    /\ tx_inicializado_ = FALSE
    /\ sw_live = FALSE /\ selector_ = 0 /\ sw_exc = "none"
    /\ sw_signals = [g \in Generators |-> 0]
    /\ mi = 1 /\ joined = {} /\ proc = "run" /\ retval = -1
    /\ stopIssued = FALSE /\ sigSeen = FALSE
    /\ TimerIdle
    /\ LogIdle
    /\ BlkIdle /\ PidLogInit

ReceptorNext == RxThread \/ RefThread

SpecReceptor == InitReceptor /\ [][ReceptorNext]_vars

\* The fields of the parameter cell.
ParamCell == <<gains, signal_type>>

C19_WitnessUninit == ~inicializado_ /\ pc["rx"] = "retF" /\ pc["ref"] = "ph"

\* C20: the status logged for an iteration is OK exactly when its total
\* time is at most 0.9 of the period, WARNING exactly when it is above 0.9 of
\* the period and at most the period, CRITICAL exactly when it is above the
\* period.
C20_StatusByThreshold ==
    status # "none" =>
        /\ status \in {"OK", "WARNING", "CRITICAL"}
        /\ status = "OK" <=> 10 * t_total <= 9 * period_ns
        /\ status = "WARNING" <=> (10 * t_total > 9 * period_ns /\ t_total <= period_ns)
        /\ status = "CRITICAL" <=> t_total > period_ns

\* C20 witness: the second iteration of a two-input task took exactly 0.9
\* of the period and has been logged OK.
C20_Witness ==
    /\ task_class = "Hilo2in" /\ iterations = 2
    /\ t_total > 0 /\ 10 * t_total = 9 * period_ns /\ status = "OK"

\* C21: when the file cannot be opened the call that tried returns
\* normally with the buffer holding the window the eviction law prescribes
\* and the file untouched, and the logger goes on accepting lines.
C21_MemoryOnlyMode ==
    /\ [][(~opened' /\ lines_since_flush' = 0 /\ lineNo' > 0)
             => /\ file' = file
                /\ log_buffer' = Lines(IF lineNo' > max_lines THEN lineNo' - max_lines + 1
                                                              ELSE 1, lineNo')]_vars
    /\ []((~destroyed /\ lineNo > 0 /\ lineNo < MaxLines) => ENABLED writeLine(FALSE))

\* C21 witness: the buffer has overflowed, the last flush could not open the
\* file, which is still empty, and a line has been accepted since.
C21_Witness ==
    /\ ~opened /\ file = <<>> /\ ~destroyed
    /\ lineNo > max_lines /\ lines_since_flush = 1 /\ lineNo >= 3

-----------------------------------------------------------------------------
(* One discrete block of any variant, constructed and then stepped and     *)
(* reset by its owner.                                                     *)

BlkInit ==
    /\ blk_par \in BlockParams
    /\ blk = Construct(blk_par)
    /\ blk_in = <<>> /\ blk_out = <<>> /\ blk_exc = FALSE /\ blk_reset = "none"

InitBlocks == PipeIdle /\ TimerIdle /\ LogIdle /\ BlkInit /\ PidLogInit

SpecBlocks == InitBlocks /\ [][BlocksNext]_vars

\* C22: after any number of steps the error history of a PID controller
\* holds at most 3 entries.
C22_ErrorHistoryBounded ==
    blk.kind = "pid" => Len(blk.eHist_) <= 3

\* Element j of a sequence, 0 for the terms before the first step.
At0(q, j) == IF j >= 1 THEN q[j] ELSE 0

\* C23: every step k of a PID controller stepped since its construction
\* returns u[k] = u[k-1] + (Kp + Ki*Ts + Kd/Ts) e[k] - (Kp + 2 Kd/Ts) e[k-1]
\* + (Kd/Ts) e[k-2], the terms before the first step being 0; with Kd = 0
\* that is u[k] = u[k-1] + Kp (e[k] - e[k-1]) + Ki Ts e[k].
C23_PidRecurrence ==
    (blk.kind = "pid" /\ blk_reset = "none") =>
        \A k \in 1..Len(blk_out) :
            LET Kp == blk_par.Kp
                Ki == blk_par.Ki
                Kd == blk_par.Kd
                Ts == blk_par.Ts
            IN  /\ blk_out[k] = At0(blk_out, k - 1)
                                    + (Kp + Ki * Ts + Kd \div Ts) * blk_in[k]
                                    - (Kp + (2 * Kd) \div Ts) * At0(blk_in, k - 1)
                                    + (Kd \div Ts) * At0(blk_in, k - 2)
                /\ Kd = 0 => blk_out[k] = At0(blk_out, k - 1)
                                    + Kp * (blk_in[k] - At0(blk_in, k - 1))
                                    + Ki * Ts * blk_in[k]

\* A controller with a derivative gain has made three steps with changing,
\* nonzero errors.
C23_Witness ==
    /\ blk.kind = "pid" /\ blk_reset = "none" /\ blk_par.Kd # 0
    /\ Len(blk_out) >= 3
    /\ blk_in[1] # 0 /\ blk_in[2] # blk_in[1] /\ blk_in[3] # 0
    /\ blk_out[3] # blk_out[2]

\* C24: step k of an A/D converter stepped since its construction returns
\* the input of step k - 1, and its first step returns 0.
C24_OneStepDelay ==
    (blk.kind = "ad" /\ blk_reset = "none") =>
        \A k \in 1..Len(blk_out) : blk_out[k] = At0(blk_in, k - 1)

\* A converter has made two steps with a nonzero first input and a
\* different second one.
C24_Witness ==
    /\ blk.kind = "ad" /\ blk_reset = "none"
    /\ Len(blk_out) >= 2
    /\ blk_in[1] # 0 /\ blk_in[2] # blk_in[1]
    /\ blk_out[1] = 0 /\ blk_out[2] = blk_in[1]

\* C25: after reset() a block of any variant returns, for the inputs it is
\* then given, what a block newly constructed with the same parameters
\* returns for them.
C25_ResetLikeFresh ==
    blk_reset = "reset" => blk_out = Outputs(Construct(blk_par), blk_in)

\* C26: a one-input step on a summing junction leaves by an exception and
\* leaves every field of the block (k_, the sample buffer, e_out_) as it
\* was; the two-input step made after it returns in1 - in2 and is stored as
\* sample k_, as it would have been without the failed call.
C26_WrongStepLeavesBlock ==
    /\ [][(blk.kind = "sum" /\ \E uk \in BlockInputs : BlkNext(uk))
              => (blk_exc' /\ blk' = blk /\ blk_out' = blk_out)]_vars
    /\ [][(blk.kind = "sum" /\ blk_exc)
              => \A in1, in2 \in BlockInputs :
                    BlkNext2(in1, in2)
                        => /\ blk_out' = Append(blk_out, in1 - in2)
                           /\ blk'.e_out_ = in1 - in2
                           /\ blk'.k_ = blk.k_ + 1
                           /\ blk'.buffer_[blk.writeIndex_] = <<in1, in1 - in2, blk.k_>>]_vars

\* A one-input step has just failed on a summing junction that had made a
\* two-input step before and holds a nonzero last output.
C26_Witness ==
    /\ blk.kind = "sum" /\ blk_exc /\ blk_reset = "none"
    /\ blk.k_ >= 1 /\ blk.e_out_ # 0 /\ blk.k_ < MaxSteps

\* Every coefficient of q divided by d.
Scaled(q, d) == [j \in 1..Len(q) |-> q[j] \div d]

\* C27: a transfer function constructed with a[0] # 1 stores a denominator
\* with a_[0] = 1 and returns, for the inputs it is given, what the transfer
\* function constructed from b/a[0] and a/a[0] returns for them.
C27_NormalisedBehaviour ==
    (blk.kind = "tf" /\ blk_par.a[1] # 1 /\ blk_reset = "none") =>
        /\ blk.a_[1] = 1
        /\ blk_out = Outputs(Construct([blk_par EXCEPT
                                           !.b = Scaled(@, blk_par.a[1]),
                                           !.a = Scaled(@, blk_par.a[1])]), blk_in)

-----------------------------------------------------------------------------
(* The PID task's loop and the flush of its timing buffer.                 *)

InitPidLog == PipeIdle /\ TimerIdle /\ LogIdle /\ BlkIdle /\ PidLogInit

SpecPidLog == InitPidLog /\ [][PidLogNext]_vars

\* The last n elements of a sequence.
LastOf(q, n) == SubSeq(q, Len(q) - n + 1, Len(q))

\* C28: the file written by the flush at the end of a run holds the last
\* min(N, MAX_LOG_ENTRIES) of the N logged iterations, each once and in
\* increasing order, and no other row.
C28_FileIsLastLogged ==
    (pid_phase = "flushed" /\ pid_logfile # <<>>) =>
        pid_logfile = LastOf(pid_logged, IF Len(pid_logged) < MaxLogEntries
                                         THEN Len(pid_logged) ELSE MaxLogEntries)

-----------------------------------------------------------------------------
\* The tasks of the classes Hilo, Hilo2in and HiloPID.
StepTasks == HiloTasks \cup {"sum", "pid"}

\* The flag a task's stop check reads.
StopFlag(t) == IF t = "pid" THEN vars_running ELSE running

\* C29: the step in which a task reads its stop flag as false takes it out
\* of its loop at once, past the block step, the write of the output and the
\* log row, and leaves the controller's gains alone; a task that has left
\* its loop never enters it again.
C29_StopIterationDoesNothing ==
    /\ [][\A t \in StepTasks :
            (pc[t] = "chk" /\ pc'[t] # "chk" /\ ~StopFlag(t))
                => (pc'[t] = "done" /\ applied' = applied)]_vars
    /\ [][\A t \in StepTasks : pc[t] = "done" => pc'[t] = "done"]_vars

\* The PID task and a one-input or two-input task have both left their
\* loops while the process is still running.
C29_Witness ==
    /\ Alive /\ pc["main"] # "m_done"
    /\ pc["pid"] = "done"
    /\ \E t \in HiloTasks \cup {"sum"} : pc[t] = "done"

\* C30: the monitor's step that follows a reading of 0 from the run source,
\* or a cleared signal flag, writes false to *running while the monitor
\* holds the shared mutex, and takes the monitor out of its loop for good;
\* after a non-zero reading with no signal the monitor goes back to poll.
C30_MonitorStopsUnderMutex ==
    /\ [][(pc["mon"] \in {"sh", "wh"} /\ pc'["mon"] # pc["mon"])
              => IF pc["mon"] = "sh" \/ run_state = 0
                   THEN /\ holder["mtx"] = "mon"
                        /\ running' = FALSE
                        /\ pc'["mon"] = "done"
                   ELSE pc'["mon"] = "top"]_vars
    /\ [][pc["mon"] = "done" => pc'["mon"] = "done"]_vars

-----------------------------------------------------------------------------
(* One transmitter or receiver task and its timer.                         *)

\* HiloTransmisor.cpp:81-83, HiloReceptor.cpp:81-83: the timer is constructed
\* and reads the clock.
TimerIOInit ==
    /\ period_ns \in 1..MaxPeriod
    /\ now \in 0..(TicksPerSec - 1)
    /\ t0 = now
    /\ next_sec = now \div TicksPerSec
    /\ next_nsec = now % TicksPerSec
    /\ nwaits = 0 /\ iterations = 0 /\ iter_t0 = now /\ t_total = 0
    /\ status = "none" /\ wret = 0 /\ tphase = "iter"
    /\ task_class \in {"HiloTransmisor", "HiloReceptor"}
    /\ t_ejecucion = 0

InitTimerIO == PipeIdle /\ TimerIOInit /\ LogIdle /\ BlkIdle /\ PidLogInit

SpecTimerIO == InitTimerIO /\ [][TimerIONext]_vars

\* C31: the row of an iteration is written before the iteration's wait and
\* an iteration whose work took at most 0.9 of the period is logged OK (here
\* for the transmitter and receiver tasks, at the end of each iteration).
C31_WorkWithinBudgetIsOK ==
    (tphase = "iter" /\ iterations > 0) =>
        /\ nwaits = iterations - 1
        /\ 10 * t_ejecucion <= 9 * period_ns => status = "OK"

-----------------------------------------------------------------------------
\* The PID task is in a cycle whose trylock found the pipeline mutex busy.
PidSkipping == pc["pid"] \in {"skip", "skipErr"}

\* C32: in a cycle in which the PID task could not lock the pipeline mutex
\* the task is at no access to a field of the pipeline or parameter cell and
\* holds no mutex, and its steps of that cycle leave the gains of the
\* controller, the gains it has read, the parameter cell and the stop flags
\* as they were.
C32_SkippedCycleChangesNothing ==
    /\ [](PidSkipping => (Access("pid") = {} /\ Held("pid") = {}))
    /\ [][((PidSkipping \/ PidSkipping') /\ pc'["pid"] # pc["pid"])
              => UNCHANGED <<applied, pid_g, gains, signal_type, running, vars_running,
                             holder, cycle_upd>>]_vars

\* The PID task is in a skipped cycle, main holds the pipeline mutex, and
\* the parameter cell holds gains newer than the controller's.
C32_Witness ==
    /\ PidSkipping /\ holder["vars"] = "main"
    /\ \A f \in GainFields : gains[f] > applied[f]

\* C33: the PID task changes the gains of the controller only in the part
\* of its cycle that steps the block and writes the control output, that is
\* after the block step and before the write of u, not before the step.
C33_GainsSetAfterStep ==
    [][(pc'["pid"] # pc["pid"] /\ applied' # applied) => pc["pid"] = "st"]_vars

\* C34: in each period the signal-switch task, having read signal_type and
\* setpoint from the parameter cell, sets the selector and the offset of the
\* selected generator and goes on to store the value of next() in the
\* reference cell.
C34_PeriodSetsAndStores ==
    [][(pc["ref"] = "ph" /\ pc'["ref"] # "ph")
          => (pc'["ref"] = "wl" /\ proc' = "run")]_vars

\* The positions of main after it has left its monitoring loop.
MainLeft == {"m_stop", "m_wrRun", "m_lockV2", "m_wrV", "m_join", "m_close", "m_dtor",
             "m_done"}

\* C35: while the run source reads 1 and no signal has arrived, no task
\* thread has left its loop and main has not left its monitoring loop.
C35_RunsUntilStopCommanded ==
    (Alive /\ run = 1 /\ g_signal_run = 1) =>
        /\ \A t \in Workers : pc[t] # "done"
        /\ pc["main"] \notin MainLeft

\* C36: once some thread has written false to the stop flag, the flag is
\* false in every later state: no thread writes true to it again.
C36_StopFlagStaysFalse == stopIssued => ~running

\* The positions where a task is in timer.esperar() or has left run(): the
\* end of an iteration, a skipped PID iteration, the receiver after recibir,
\* and the exit.
WaitOrExit == {"top", "skip", "skipErr", "retF", "retT", "done"}

\* C37: a task that is in the timer wait or has exited holds no mutex.
C37_NoMutexAcrossWaitOrExit ==
    \A t \in Workers : pc[t] \in WaitOrExit => Held(t) = {}

\* C37 witness: the PID task has left on a stop, and the mutex it gave back
\* on its way out is held by the transmitter.
C37_Witness ==
    /\ pc["pid"] = "done" /\ Held("pid") = {}
    /\ holder["vars"] = "tx"

\* C38: a destructor's pthread_join is never on a thread that main has
\* joined before: every worker is joined exactly once.
C38_JoinedExactlyOnce ==
    [][(pc["main"] = "m_dtor" /\ mi' = mi + 1) => DtorSeq[mi] \notin joined]_vars

----------------------------------------------------------------------------
(* The two endpoints: in the assembly with their tasks and the monitor,    *)
(* and on their own, where a caller initialises and closes them in any     *)
(* order between two calls of the task (the classes are public and are     *)
(* used by other programs of the repository).                              *)

EndpointTasks == {"mon", "tx", "rx"}
Endpoints == {"tx", "rx"}

TxThread == FlagLock("tx") \/ FlagCheck("tx") \/ TxLockVars \/ TxSend

\* The endpoints and their tasks on their own, no call in progress.
EndpointsAlone ==
    /\ tasks = Endpoints
    /\ pc = [t \in Threads |-> IF t \in Endpoints THEN "top" ELSE "off"]
    /\ holder = [m \in Mutexes |-> "none"]
    /\ running = TRUE /\ vars_running = TRUE
    /\ g_signal_run = 1 /\ run = 1 /\ run_state = 1 /\ running_now = TRUE
    /\ signal_type = 0 /\ rx_msg = 0
    /\ gains = [f \in GainFields |-> 1]
    /\ applied = [f \in GainFields |-> 1]
    /\ pid_g = [f \in GainFields |-> 0]
    /\ received = 0 /\ cycle_upd = 0
    /\ inicializado_ = FALSE
    /\ tx_inicializado_ = FALSE
    /\ sw_live = FALSE /\ selector_ = 0 /\ sw_exc = "none"
    /\ sw_signals = [g \in Generators |-> 0]
    /\ mi = 1 /\ joined = {} /\ proc = "run" /\ retval = -1
    /\ stopIssued = FALSE /\ sigSeen = FALSE

\* The endpoints as testHilo.cpp assembles them.
EndpointsAssembled ==
    /\ tasks = EndpointTasks
    /\ pc = [t \in Threads |-> IF t = "main" THEN "m_ctor" ELSE "off"]
    /\ PipeFields

InitEndpoint ==
    /\ EndpointsAlone \/ EndpointsAssembled
    /\ TimerIdle
    /\ LogIdle
    /\ BlkIdle /\ PidLogInit

\* A caller outside the assembly, between two calls of the endpoint's task.
CallerOf(e) == pc["main"] = "off" /\ pc[e] = "top"

EndpointInicializar(e) ==
    /\ CallerOf(e)
    /\ \E opened_ok \in BOOLEAN :
          IF e = "tx"
            THEN /\ tx_inicializado_' = inicializar(tx_inicializado_, opened_ok)
                 /\ UNCHANGED inicializado_
            ELSE /\ inicializado_' = inicializar(inicializado_, opened_ok)
                 /\ UNCHANGED tx_inicializado_
    /\ UNCHANGED <<frame1, gainVars, pc, holder, running, vars_running, g_signal_run, run,
                   run_state, running_now, signal_type, rx_msg, mi, joined, proc, retval,
                   stopIssued>>

EndpointCerrar(e) ==
    /\ CallerOf(e)
    /\ IF e = "tx"
         THEN tx_inicializado_' = cerrar(tx_inicializado_) /\ UNCHANGED inicializado_
         ELSE inicializado_' = cerrar(inicializado_) /\ UNCHANGED tx_inicializado_
    /\ UNCHANGED <<frame1, gainVars, pc, holder, running, vars_running, g_signal_run, run,
                   run_state, running_now, signal_type, rx_msg, mi, joined, proc, retval,
                   stopIssued>>

EndpointNext ==
    \/ MainStep
    \/ MonThread
    \/ TxThread
    \/ RxThread
    \/ DeliverSignal
    \/ UserStop
    \/ \E e \in Endpoints : EndpointInicializar(e)
    \/ \E e \in Endpoints : EndpointCerrar(e)

SpecEndpoint == InitEndpoint /\ [][EndpointNext]_vars

\* The positions inside enviar and recibir past the test of inicializado_:
\* the cell is locked or about to be, the transport has been or will be used.
InsideCall(e) ==
    IF e = "tx" THEN pc["tx"] = "vh" ELSE pc["rx"] \in {"pl", "ph", "hi", "hd"}

Initialised(e) == IF e = "tx" THEN tx_inicializado_ ELSE inicializado_

\* The call of the endpoint's task is at the test of inicializado_.
AtCall(e) == IF e = "tx" THEN pc["tx"] = "vl" ELSE pc["rx"] = "recv"

\* What a call that returned false leaves the task at.
ReturnedFalse(e) == IF e = "tx" THEN "top" ELSE "retF"

\* main has run the cerrar() calls of testHilo.cpp:326-327.
AssemblerClosed == pc["main"] \in {"m_dtor", "m_done"} /\ retval = 0

\* C39: an endpoint is inside send or receive only while it is initialised;
\* a call on an endpoint that is not initialised returns false and changes
\* neither a mutex nor a shared cell nor the endpoint; inicializar on an
\* initialised endpoint and cerrar on one that is not change nothing; and
\* once main has closed the endpoints no task is running that could call them.
C39_EndpointStateMachine ==
    /\ [](\A e \in Endpoints : InsideCall(e) => Initialised(e))
    /\ [][\A e \in Endpoints :
            (AtCall(e) /\ ~Initialised(e) /\ pc'[e] # pc[e])
                => /\ pc'[e] = ReturnedFalse(e)
                   /\ UNCHANGED <<holder, gains, signal_type, received, endpointVars>>]_vars
    /\ [][\A e \in Endpoints :
            /\ (Initialised(e) /\ EndpointInicializar(e)) => UNCHANGED vars
            /\ (~Initialised(e) /\ EndpointCerrar(e)) => UNCHANGED vars]_vars
    /\ [](AssemblerClosed => \A e \in Endpoints : pc[e] \in {"off", "done"} /\ ~Initialised(e))

\* C39 witness: on its own, the receiver was initialised and stored a message,
\* was then closed, and the poll after that has returned false with the cell
\* as the message left it; the transmitter is initialised and inside enviar.
C39_Witness ==
    /\ pc["main"] = "off"
    /\ received = 1 /\ ~inicializado_ /\ pc["rx"] = "retF"
    /\ gains = [f \in GainFields |-> 2]
    /\ tx_inicializado_ /\ pc["tx"] = "vh"

\* C39 witness in the assembly: main has closed both endpoints after their
\* tasks, which ran initialised, were joined.
C39_WitnessAssembled ==
    /\ AssemblerClosed /\ {"tx", "rx"} \subseteq joined
    /\ received = 1

\* C40: after every wait the stored deadline is a valid timespec, its
\* tv_nsec within one second, whatever period the timer was built with.
C40_DeadlineIsValidTimespec == nwaits > 0 => ValidTimespec(next_nsec)

====
